---- MODULE Spec2Model ----
(***************************************************************************)
(* Model of the BLE add-on (src/my-addon): the profile store               *)
(* (profile_store.py), the request handlers of run.py (profiles, scan      *)
(* cache, fetch / write / command batches) and the advertised-name         *)
(* registry (gatt_profiles.py, profiles/zp2_profile.py).                   *)
(*                                                                         *)
(* Python strings are sequences of one-character strings, so that strip,   *)
(* upper, substring tests and concatenation are computed, not assumed.     *)
(***************************************************************************)
EXTENDS Integers, Sequences, FiniteSets, TLC

VARIABLES
    \* ---- profile store (profiles.json) and its request handlers
    pfile,      \* content of /data/profiles.json
    plock,      \* holder of PROFILE_LOCK (0 = free)
    ppc,        \* per handler: position in its load-mutate-save sequence
    preq,       \* per handler: the request being served
    pdoc,       \* per handler: the in-memory document after load
    presp,      \* per handler: the last response returned
    pserial,    \* history: the requests applied one after another
    pissued,    \* number of profile requests issued so far
    now,        \* wall clock (time.time / _now_ms), a logical counter
    \* ---- scan cache (scan_cache.json) and its request handlers
    cfile,      \* content of /data/scan_cache.json
    cscan,      \* number of api_scan handlers awaiting BleakScanner.discover
    cresp,      \* the last response of api_devices
    clast,      \* the cache request that ran last
    csweep,     \* history: the latest completed sweep, and its discovery order
    cticks,     \* number of clock steps taken
    \* ---- scan_cache.json written in place, read from a worker thread
    cwr,        \* api_scan on the event loop: position and payload
    crd,        \* api_devices in the thread pool: position and loaded cache
    cobs,       \* the last content a reader loaded, and what was whole then
    cwhole,     \* history: the content last written completely
    \* ---- the two files across a crash of the process
    ptmp,       \* content of /data/profiles.json.tmp
    kpc,        \* the write in progress, or "crashed"
    kold,       \* history: content of the file before the write in progress
    knew,       \* the content the write in progress is writing
    kobs,       \* what the first reader after a restart found
    kcrashes,   \* number of crashes so far
    kwrites,    \* number of writes started so far
    \* ---- batch operations (fetch_details / write_profile / send_command)
    breq,       \* the batch request being served
    bpc,        \* position of the batch handler
    bi,         \* index of the target whose turn it is
    bstep,      \* number of reads / writes done in this turn
    blink,      \* this turn's client: none, created, up, lost, closed
    badv,       \* this turn's adv_name
    bitem,      \* this turn's result item
    bread,      \* api_fetch_details: the bytes this turn has read so far
    bresults,   \* the results list
    blocals,    \* write_profile: the profile snapshot, mode_text, mqtt_text
    bret,       \* a `return` pending while the finally block runs
    bresp,      \* the response returned
    blog,       \* history: per turn, the transport operations in order
    bturns,     \* history: per finished turn, how its finally block went
    bopen,      \* history: the turns whose link was left connected
    \* ---- the codec of the ZP2 profile, called on its own
    xcall       \* the last call of a codec function: arguments and result

pvars == <<pfile, plock, ppc, preq, pdoc, presp, pserial, pissued>>
cvars == <<cfile, cscan, cresp, clast, csweep, cticks>>
iovars == <<cwr, crd, cobs, cwhole>>
vars == <<pfile, plock, ppc, preq, pdoc, presp, pserial, pissued, now,
          cfile, cscan, cresp, clast, csweep, cticks,
          cwr, crd, cobs, cwhole,
          ptmp, kpc, kold, knew, kobs, kcrashes, kwrites,
          breq, bpc, bi, bstep, blink, badv, bitem, bread, bresults, blocals,
          bret, bresp, blog, bturns, bopen, xcall>>
bvars == <<breq, bpc, bi, bstep, blink, badv, bitem, bread, bresults, blocals,
           bret, bresp, blog, bturns, bopen>>
kvars == <<ptmp, kpc, kold, knew, kobs, kcrashes, kwrites>>

\* what the profile routes leave alone, and what the cache routes leave alone
notProfiles == <<cvars, iovars, kvars, bvars, xcall>>
notCache == <<pvars, iovars, kvars, bvars, xcall>>

----------------------------------------------------------------------------
(* Bounds of the model *)

\* number of profile requests (each served by its own handler coroutine)
MaxRequests == 3
\* last value of the millisecond clock the profile store reads
MaxStoreClock == 1
\* number of devices one sweep discovers
MaxDevices == 3
\* number of clock steps in a behaviour of the scan cache
MaxTicks == 3
\* number of api_scan handlers in flight at a time
MaxScans == 1
\* number of crashes of the process in a behaviour
MaxCrashes == 1
\* number of file writes started in a behaviour with crashes
MaxWrites == 3
\* number of targets a batch request names
MaxTargets == 2

----------------------------------------------------------------------------
(* Strings *)

\* str.strip(): leading and trailing blanks removed
RECURSIVE LStrip(_)
LStrip(s) ==
    IF s = <<>> THEN <<>>
    ELSE IF Head(s) = " " THEN LStrip(Tail(s)) ELSE s

RECURSIVE RStrip(_)
RStrip(s) ==
    IF s = <<>> THEN <<>>
    ELSE IF s[Len(s)] = " " THEN RStrip(SubSeq(s, 1, Len(s) - 1)) ELSE s

Strip(s) == RStrip(LStrip(s))

\* str.upper() on the letters the model uses
UpperChar(c) ==
    CASE c = "a" -> "A" [] c = "w" -> "W" [] c = "s" -> "S"
      [] c = "l" -> "L" [] c = "o" -> "O" [] c = "c" -> "C"
      [] c = "z" -> "Z" [] c = "p" -> "P" [] c = "x" -> "X"
      [] OTHER -> c

Upper(s) == [i \in 1..Len(s) |-> UpperChar(s[i])]

\* `pat in s` for strings
Contains(s, pat) ==
    \E i \in 0..(Len(s) - Len(pat)) : SubSeq(s, i + 1, i + Len(pat)) = pat

MODE_AWS == <<"A", "W", "S">>
MODE_LOCAL == <<"L", "O", "C", "A", "L">>

----------------------------------------------------------------------------
(* profile_store.py *)

SCHEMA_VERSION == 1

_now_ms == now

\* dict.get(k, v) and dict.setdefault(k, v): a JSON object is a function from
\* its keys
Get(d, k, v) == IF k \in DOMAIN d THEN d[k] ELSE v
setdefault(d, k, v) == IF k \in DOMAIN d THEN d ELSE d @@ (k :> v)

_default_doc ==
    [schema |-> SCHEMA_VERSION, current_profile_id |-> <<>>, profiles |-> <<>>]

\* what profiles.json can hold: nothing (no file), bytes json.load rejects
\* ("corrupt", and "partial" while a write is under way), a JSON value that
\* is not an object ("nonmapping"), an object ("doc"), an object whose
\* "profiles" is not an array ("doc_nonlist")
Missing == [kind |-> "missing", doc |-> _default_doc]
Corrupt == [kind |-> "corrupt", doc |-> _default_doc]
NonMapping == [kind |-> "nonmapping", doc |-> _default_doc]
FileDoc(d) == [kind |-> "doc", doc |-> d]
FileDocNonList(d) == [kind |-> "doc_nonlist", doc |-> d]

\* the setdefault lines of load_profiles
FillDefaults(d) ==
    setdefault(setdefault(setdefault(d, "schema", SCHEMA_VERSION),
                          "current_profile_id", <<>>),
               "profiles", <<>>)

\* the file after load_profiles found it missing or unreadable
WriteDefaultOnReadFailure(f) == FileDoc(_default_doc)

\* load_profiles: (document returned, file content afterwards)
load_profiles(f) ==
    IF f.kind = "doc"
    THEN [doc |-> FillDefaults(f.doc), file |-> f]
    ELSE IF f.kind = "doc_nonlist"
    THEN [doc |-> [FillDefaults(f.doc) EXCEPT !.profiles = <<>>], file |-> f]
    ELSE IF f.kind = "nonmapping"
    THEN [doc |-> _default_doc, file |-> f]
    ELSE [doc |-> _default_doc, file |-> WriteDefaultOnReadFailure(f)]

\* mutant: save_profiles writes the schema value the document carries
SavedSchema_FromDoc(doc) == Get(doc, "schema", SCHEMA_VERSION)

\* the "schema" value save_profiles writes
SavedSchema(doc) == SCHEMA_VERSION

\* save_profiles: the file content written
save_profiles(doc) ==
    FileDoc([schema |-> SavedSchema(doc),
             current_profile_id |-> Get(doc, "current_profile_id", <<>>),
             profiles |-> Get(doc, "profiles", <<>>)])

normalize_profile(p) ==
    LET m == Upper(Strip(IF p.mode = <<>> THEN MODE_LOCAL ELSE p.mode))
    IN  [id |-> Strip(p.id),
         name |-> Strip(p.name),
         mode |-> IF m \in {MODE_LOCAL, MODE_AWS} THEN m ELSE MODE_LOCAL,
         ssid |-> Strip(p.ssid),
         password |-> Strip(p.password),
         mqtt |-> Strip(p.mqtt),
         updated_at |-> _now_ms]

\* index of the first profile with this id, 0 when there is none
IndexOfId(profiles, pid) ==
    IF \E i \in 1..Len(profiles) : Get(profiles[i], "id", <<>>) = pid
    THEN CHOOSE i \in 1..Len(profiles) :
            /\ Get(profiles[i], "id", <<>>) = pid
            /\ \A j \in 1..(i - 1) : Get(profiles[j], "id", <<>>) # pid
    ELSE 0

\* mutant: upsert appends even when the id is already in the list
PlaceProfile_AlwaysAppend(profiles, idx, p) == Append(profiles, p)

\* mutant: a profile whose id is new goes to the front of the list
PlaceProfile_Prepend(profiles, idx, p) ==
    IF idx > 0 THEN [profiles EXCEPT ![idx] = p] ELSE <<p>> \o profiles

\* the list after upsert has placed p: replaced at idx, or appended
PlaceProfile(profiles, idx, p) ==
    IF idx > 0 THEN [profiles EXCEPT ![idx] = p] ELSE Append(profiles, p)

\* mutant: upsert accepts an empty id
IdRejected_Never(pid) == FALSE

\* `if not pid` of upsert_profile
IdRejected(pid) == pid = <<>>

\* upsert_profile: overwrite_id = <<>> stands for None (and for "")
upsert_profile(doc, profile, overwrite_id) ==
    LET p == normalize_profile(profile)
        pid == Strip(IF overwrite_id # <<>> THEN overwrite_id ELSE p.id)
    IN  IF IdRejected(pid)
        THEN [ok |-> FALSE, id |-> <<>>, doc |-> doc]
        ELSE LET idx == IndexOfId(doc.profiles, pid)
                 q == [p EXCEPT !.id = pid, !.updated_at = _now_ms]
             IN  [ok |-> TRUE, id |-> pid,
                  doc |-> [doc EXCEPT
                              !.current_profile_id = pid,
                              !.profiles = PlaceProfile(doc.profiles, idx, q)]]

\* mutant: delete_profile removes nothing
WithoutId_Nothing(profiles, pid) == profiles

RECURSIVE WithoutId(_, _)
WithoutId(profiles, pid) ==
    IF profiles = <<>> THEN <<>>
    ELSE IF Get(Head(profiles), "id", <<>>) # pid
         THEN <<Head(profiles)>> \o WithoutId(Tail(profiles), pid)
         ELSE WithoutId(Tail(profiles), pid)

\* mutant: delete leaves the selection alone
SelectionAfterDelete_Keep(cur, pid) == cur

\* the selection after delete_profile has removed pid
SelectionAfterDelete(cur, pid) == IF cur = pid THEN <<>> ELSE cur

delete_profile(doc, rawpid) ==
    LET pid == Strip(rawpid)
    IN  IF pid = <<>>
        THEN [ok |-> FALSE, doc |-> doc]
        ELSE LET after == WithoutId(doc.profiles, pid)
             IN  [ok |-> Len(after) # Len(doc.profiles),
                  doc |-> [doc EXCEPT
                              !.current_profile_id =
                                  SelectionAfterDelete(doc.current_profile_id, pid),
                              !.profiles = after]]

\* mutant: set_current_profile takes every id as the id of a profile
ProfileExists_Always(doc, pid) == TRUE

\* `exists = any(str(p.get("id", "")) == pid for p in doc.get("profiles", []))`
ProfileExists(doc, pid) ==
    \E i \in 1..Len(doc.profiles) : Get(doc.profiles[i], "id", <<>>) = pid

set_current_profile(doc, rawpid) ==
    LET pid == Strip(rawpid)
    IN  IF pid = <<>>
        THEN [ok |-> TRUE, id |-> <<>>,
              doc |-> [doc EXCEPT !.current_profile_id = <<>>]]
        ELSE IF ~ ProfileExists(doc, pid)
             THEN [ok |-> FALSE, id |-> <<>>, doc |-> doc]
             ELSE [ok |-> TRUE, id |-> pid,
                   doc |-> [doc EXCEPT !.current_profile_id = pid]]

----------------------------------------------------------------------------
(* run.py: profile request handlers (api_profiles_upsert / select / delete) *)

Handlers == 1..MaxRequests

\* request bodies the clients send
InProfile(id, mode, mqtt) ==
    [id |-> id, name |-> <<"n">>, mode |-> mode, ssid |-> <<"s">>,
     password |-> <<"k">>, mqtt |-> mqtt]

NoProfile == InProfile(<<>>, <<>>, <<>>)

Upsert(p, o) == [kind |-> "upsert", profile |-> p, id |-> o]

ProfileRequests ==
    { Upsert(InProfile(<<"a">>, <<"a", "w", "s">>, <<"h">>), <<>>),
      Upsert(InProfile(<<" ", "a", " ">>, <<"x">>, <<>>), <<>>),
      Upsert(InProfile(<<"b">>, <<>>, <<"h", ":", "9">>), <<>>),
      Upsert(InProfile(<<"a">>, MODE_LOCAL, <<"h">>), <<"b">>),
      Upsert(InProfile(<<"a">>, MODE_LOCAL, <<"h">>), <<" ">>),
      Upsert(InProfile(<<>>, MODE_LOCAL, <<"h">>), <<>>) }
    \cup { [kind |-> "select", profile |-> NoProfile, id |-> i] :
          i \in {<<>>, <<"a">>, <<"b", " ">>} }
    \cup { [kind |-> "delete", profile |-> NoProfile, id |-> i] :
          i \in {<<>>, <<"a">>, <<" ", "b">>} }

NoRequest == [kind |-> "none", profile |-> NoProfile, id |-> <<>>]
NoResponse == [kind |-> "none", ok |-> FALSE]

\* the store operation a handler runs on the loaded document
StoreOp(req, doc) ==
    CASE req.kind = "upsert" -> upsert_profile(doc, req.profile, req.id)
      [] req.kind = "select" -> set_current_profile(doc, req.id)
      [] OTHER -> [ok |-> delete_profile(doc, req.id).ok, id |-> <<>>,
                   doc |-> delete_profile(doc, req.id).doc]

\* one whole request run alone on the persisted content f: the content after
RunAlone(req, f) ==
    LET l == load_profiles(f)
        r == StoreOp(req, l.doc)
    IN  IF r.ok THEN save_profiles(r.doc) ELSE l.file

\* mutant: the handlers do not take the lock
LockFree_NoLock == TRUE

\* `async with PROFILE_LOCK`: the handler enters only when the lock is free
LockFree == plock = 0

InitProfiles ==
    /\ pfile = Missing
    /\ plock = 0
    /\ ppc = [h \in Handlers |-> "new"]
    /\ preq = [h \in Handlers |-> NoRequest]
    /\ pdoc = [h \in Handlers |-> _default_doc]
    /\ presp = [h \in Handlers |-> NoResponse]
    /\ pserial = Missing
    /\ pissued = 0

\* a request arrives and its handler reaches `async with PROFILE_LOCK`; the
\* handler does not read the request body before it holds the lock, so the
\* body is drawn in AcquireLock
ProfileRequest(h) ==
    /\ ppc[h] = "new"
    /\ pissued = h - 1
    /\ ppc' = [ppc EXCEPT ![h] = "wait"]
    /\ pissued' = pissued + 1
    /\ UNCHANGED <<pfile, plock, preq, pdoc, presp, pserial, now, notProfiles>>

AcquireLock(h) ==
    /\ ppc[h] = "wait"
    /\ LockFree
    /\ plock' = h
    /\ \E r \in ProfileRequests : preq' = [preq EXCEPT ![h] = r]
    /\ ppc' = [ppc EXCEPT ![h] = "locked"]
    /\ UNCHANGED <<pfile, pdoc, presp, pserial, pissued, now, notProfiles>>

\* doc = load_profiles(PROFILE_FILE)
LoadStep(h) ==
    /\ ppc[h] = "locked"
    /\ pdoc' = [pdoc EXCEPT ![h] = load_profiles(pfile).doc]
    /\ pfile' = load_profiles(pfile).file
    /\ ppc' = [ppc EXCEPT ![h] = "loaded"]
    /\ UNCHANGED <<plock, preq, presp, pserial, pissued, now, notProfiles>>

\* upsert_profile / set_current_profile / delete_profile on the loaded doc
MutateStep(h) ==
    /\ ppc[h] = "loaded"
    /\ LET r == StoreOp(preq[h], pdoc[h])
       IN  /\ pdoc' = [pdoc EXCEPT ![h] = r.doc]
           /\ ppc' = [ppc EXCEPT ![h] = IF r.ok THEN "save" ELSE "fail"]
           /\ presp' = [presp EXCEPT ![h] =
                           [kind |-> preq[h].kind, ok |-> r.ok]]
    /\ pserial' = RunAlone(preq[h], pserial)
    /\ UNCHANGED <<pfile, plock, preq, pissued, now, notProfiles>>

\* save_profiles(doc, PROFILE_FILE); return (the lock is released)
SaveStep(h) ==
    /\ ppc[h] = "save"
    /\ pfile' = save_profiles(pdoc[h])
    /\ plock' = IF plock = h THEN 0 ELSE plock
    /\ ppc' = [ppc EXCEPT ![h] = "done"]
    /\ preq' = [preq EXCEPT ![h] = NoRequest]
    /\ pdoc' = [pdoc EXCEPT ![h] = _default_doc]
    /\ UNCHANGED <<presp, pserial, pissued, now, notProfiles>>

\* if not ok: return {"ok": False, ...} (nothing is saved, the lock is released)
RejectStep(h) ==
    /\ ppc[h] = "fail"
    /\ plock' = IF plock = h THEN 0 ELSE plock
    /\ ppc' = [ppc EXCEPT ![h] = "done"]
    /\ preq' = [preq EXCEPT ![h] = NoRequest]
    /\ pdoc' = [pdoc EXCEPT ![h] = _default_doc]
    /\ UNCHANGED <<pfile, presp, pserial, pissued, now, notProfiles>>

\* time passes
TickStore ==
    /\ now < MaxStoreClock
    /\ now' = now + 1
    /\ UNCHANGED <<pvars, notProfiles>>

NextProfiles ==
    \/ \E h \in Handlers : ProfileRequest(h)
    \/ \E h \in Handlers : AcquireLock(h)
    \/ \E h \in Handlers : LoadStep(h)
    \/ \E h \in Handlers : MutateStep(h)
    \/ \E h \in Handlers : SaveStep(h)
    \/ \E h \in Handlers : RejectStep(h)
    \/ TickStore


----------------------------------------------------------------------------
(* Claims on the profile store *)

Persisted == load_profiles(pfile).doc

HasId(doc, pid) == \E i \in 1..Len(doc.profiles) : doc.profiles[i].id = pid

SelectionValid(doc) ==
    doc.current_profile_id = <<>> \/ HasId(doc, doc.current_profile_id)

\* C1: whatever upsert, delete and set_current requests have run (accepted or
\* rejected) on the initially default document, current_profile_id of the
\* persisted document, and of every document about to be saved, is empty or
\* the id of a profile in the list.
C1_SelectionValid ==
    /\ SelectionValid(Persisted)
    /\ \A h \in Handlers : ppc[h] = "save" => SelectionValid(pdoc[h])

\* C1 witness: the selected profile has been deleted while another profile
\* remains, and the selection was cleared.
C1_Witness ==
    \E h \in Handlers :
        /\ presp[h].kind = "delete" /\ presp[h].ok /\ ppc[h] = "done"
        /\ Len(Persisted.profiles) >= 1
        /\ Persisted.current_profile_id = <<>>

UniqueIds(doc) ==
    \A i, j \in 1..Len(doc.profiles) :
        doc.profiles[i].id = doc.profiles[j].id => i = j

\* C2: in the persisted document, and in every document about to be saved, no
\* two profiles share an id and no profile has an empty id.
C2_UniqueNonEmptyIds ==
    \A d \in {Persisted} \cup {pdoc[h] : h \in {g \in Handlers : ppc[g] = "save"}} :
        /\ UniqueIds(d)
        /\ \A i \in 1..Len(d.profiles) : d.profiles[i].id # <<>>

\* C2 witness: an upsert of an id already in the list was accepted and the
\* list holds two profiles.
C2_Witness ==
    \E h \in Handlers :
        /\ presp[h].kind = "upsert" /\ presp[h].ok /\ ppc[h] = "done"
        /\ Len(Persisted.profiles) = 2

Quiescent == \A h \in Handlers : ppc[h] \in {"new", "wait", "done"}

\* C3: a handler is between its load and its save only while it holds the
\* profile lock, and whenever no handler is inside its load-mutate-save
\* sequence the persisted document is the one obtained by running the
\* requests served so far one after another (in the order they were served).
C3_Serialized ==
    /\ \A h \in Handlers :
           ppc[h] \in {"locked", "loaded", "save", "fail"} => plock = h
    /\ Quiescent => load_profiles(pfile) = load_profiles(pserial)

\* C3 witness: two requests were in flight together, one waiting for the lock
\* the other held, and both have been served with a change persisted.
C3_Witness ==
    /\ Quiescent
    /\ pissued >= 2
    /\ \A h \in Handlers : presp[h].kind = "upsert" /\ presp[h].ok
    /\ Len(Persisted.profiles) = 2

----------------------------------------------------------------------------
(* gatt_profiles.py: the registry; run.py: device properties and do_scan *)

ZP2 == <<"Z", "P", "2">>

\* get_profile_by_adv_name: the key of the profile, <<>> for None
get_profile_by_adv_name(name) ==
    LET n == Upper(Strip(name))
    IN  IF n = <<>> THEN <<>>
        ELSE IF Contains(n, ZP2) THEN ZP2 ELSE <<>>

\* a discovered device: bleak's device.name, props["Name"], props["Alias"]
\* (<<>> where absent) and props["RSSI"] (NoRssi where absent)
NoRssi == -1000

Device(addr, name, pname, alias, rssi) ==
    [address |-> addr, name |-> name, pname |-> pname, alias |-> alias,
     rssi |-> rssi]

Discoverable ==
    { Device("A1", <<"z", "p", "2", "-", "1">>, <<>>, <<>>, -60),
      Device("A2", <<"t", "v">>, <<>>, <<"Z", "P", "2">>, -40),
      Device("A3", <<"t", "v">>, <<>>, <<>>, NoRssi),
      Device("A4", <<>>, <<>>, <<"m", "y", "Z", "P", "2">>, -80),
      Device("A5", <<>>, <<"x">>, <<>>, -50),
      Device("A6", <<" ", "Z", "p", "2">>, <<>>, <<>>, NoRssi) }

\* the sweeps BleakScanner.discover can return over a set of devices in
\* range: distinct addresses, any order
SweepsOver(D) ==
    UNION { { sq \in [1..n -> D] :
                \A i, j \in 1..n : sq[i].address = sq[j].address => i = j } :
            n \in 0..MaxDevices }

Sweeps == SweepsOver(Discoverable)

\* the devices in range while the cache routes are exercised
Nearby == { d \in Discoverable : d.address \in {"A1", "A3"} }

NearbySweeps == SweepsOver(Nearby)

get_name(d) ==
    IF d.name # <<>> THEN d.name
    ELSE IF d.pname # <<>> THEN d.pname ELSE d.alias

\* mutant: the legacy flag looks at the alias only
is_zp2_candidate_AliasOnly(name, d) == Contains(Upper(d.alias), ZP2)

is_zp2_candidate(name, d) ==
    \/ name # <<>> /\ Contains(Upper(name), ZP2)
    \/ Contains(Upper(d.alias), ZP2)

\* the cache entry do_scan builds for a device
ScanItem(d) ==
    LET name == get_name(d)
        profile == get_profile_by_adv_name(name)
    IN  [address |-> d.address,
         name |-> name,
         rssi |-> d.rssi,
         is_zp2 |-> is_zp2_candidate(name, d),
         model_key |-> profile,
         is_supported |-> profile # <<>>]

\* mutant: an entry without a reading is keyed as the strongest
rssi_sort_ZeroDefault(v) == IF v.rssi # NoRssi THEN v.rssi ELSE 0

rssi_sort(v) == IF v.rssi # NoRssi THEN v.rssi ELSE -999

\* the sort key (not x["is_zp2"], -rssi_sort(x)), compared as Python tuples
SortKeyLE(x, y) ==
    LET kx == IF x.is_zp2 THEN 0 ELSE 1
        ky == IF y.is_zp2 THEN 0 ELSE 1
    IN  kx < ky \/ (kx = ky /\ (0 - rssi_sort(x)) <= (0 - rssi_sort(y)))

\* list.sort is stable: x goes after every element whose key is not larger
RECURSIVE InsertSorted(_, _)
InsertSorted(x, sq) ==
    IF sq = <<>> THEN <<x>>
    ELSE IF SortKeyLE(Head(sq), x)
         THEN <<Head(sq)>> \o InsertSorted(x, Tail(sq))
         ELSE <<x>> \o sq

RECURSIVE SortItems(_)
SortItems(sq) ==
    IF sq = <<>> THEN <<>>
    ELSE InsertSorted(sq[Len(sq)], SortItems(SubSeq(sq, 1, Len(sq) - 1)))

do_scan(devices) == SortItems([i \in 1..Len(devices) |-> ScanItem(devices[i])])

----------------------------------------------------------------------------
(* run.py: the scan cache (api_scan, api_devices, find_adv_name_in_cache) *)

SCAN_CACHE_TTL_SEC == 300

CacheDoc(ts, results) == [kind |-> "doc", ts |-> ts, results |-> results]
CacheAbsent == [kind |-> "missing", ts |-> 0, results |-> <<>>]
CachePartial == [kind |-> "partial", ts |-> 0, results |-> <<>>]

\* load_json(CACHE_PATH, default={"ts": 0, "results": []})
load_json(f) == IF f.kind = "doc" THEN f ELSE CacheDoc(0, <<>>)

RECURSIVE FilterZp2(_)
FilterZp2(sq) ==
    IF sq = <<>> THEN <<>>
    ELSE IF Head(sq).is_zp2 THEN <<Head(sq)>> \o FilterZp2(Tail(sq))
         ELSE FilterZp2(Tail(sq))

\* api_devices: whether the loaded cache counts as expired
CacheExpired(cache, t) == cache.ts = 0 \/ (t - cache.ts) > SCAN_CACHE_TTL_SEC

\* mutant: an expired read leaves the file as it is
ClearedCache_Keep(f) == f

\* api_devices: the file content after a read that found the cache expired
ClearedCache(f) == CacheDoc(0, <<>>)

\* api_devices: response and file content after the call
api_devices(f, t, only_zp2) ==
    LET cache == load_json(f)
        age == t - cache.ts
    IN  IF CacheExpired(cache, t)
        THEN [resp |-> [expired |-> TRUE, age_sec |-> age, devices |-> <<>>,
                        only_zp2 |-> only_zp2],
              file |-> ClearedCache(f)]
        ELSE [resp |-> [expired |-> FALSE, age_sec |-> age,
                        devices |-> IF only_zp2 THEN FilterZp2(cache.results)
                                    ELSE cache.results,
                        only_zp2 |-> only_zp2],
              file |-> f]

\* find_adv_name_in_cache
RECURSIVE NameIn(_, _)
NameIn(results, address) ==
    IF results = <<>> THEN <<>>
    ELSE IF Head(results).address = address THEN Head(results).name
         ELSE NameIn(Tail(results), address)

find_adv_name_in_cache(f, address) == NameIn(load_json(f).results, address)

NoSweep == [done |-> FALSE, ts |-> 0, results |-> <<>>, found |-> <<>>]
NoDevicesResp ==
    [expired |-> FALSE, age_sec |-> 0, devices |-> <<>>, only_zp2 |-> FALSE]

CacheIdle ==
    /\ cfile = CacheAbsent
    /\ cscan = 0
    /\ cresp = NoDevicesResp
    /\ clast = "none"
    /\ csweep = NoSweep
    /\ cticks = 0

\* POST /api/scan arrives: the handler awaits BleakScanner.discover
ScanStart ==
    /\ cscan < MaxScans
    /\ cscan' = cscan + 1
    /\ clast' = "start"
    /\ UNCHANGED <<cfile, cresp, csweep, cticks, now, notCache>>

\* discover returns: do_scan builds and sorts the list, api_scan stamps and
\* saves it
ScanFinish(S) ==
    /\ cscan > 0
    /\ \E devices \in S :
          LET results == do_scan(devices)
          IN  /\ cfile' = CacheDoc(now, results)
              /\ csweep' = [done |-> TRUE, ts |-> now, results |-> results,
                             found |-> [i \in 1..Len(devices) |->
                                           devices[i].address]]
    /\ cscan' = cscan - 1
    /\ clast' = "scan"
    /\ UNCHANGED <<cresp, cticks, now, notCache>>

\* GET /api/devices
ApiDevices ==
    /\ \E only_zp2 \in BOOLEAN :
          LET r == api_devices(cfile, now, only_zp2)
          IN  /\ cresp' = r.resp
              /\ cfile' = r.file
    /\ clast' = "read"
    /\ UNCHANGED <<cscan, csweep, cticks, now, notCache>>

\* time passes: by a second, or by the cache's time to live
TickCache ==
    /\ cticks < MaxTicks
    /\ \E d \in {1, SCAN_CACHE_TTL_SEC} : now' = now + d
    /\ cticks' = cticks + 1
    /\ clast' = "tick"
    /\ UNCHANGED <<cfile, cscan, cresp, csweep, notCache>>

ScanFinishNearby == ScanFinish(NearbySweeps)

ScanFinishAny == ScanFinish(Sweeps)

NextCache ==
    \/ ScanStart
    \/ ScanFinishNearby
    \/ ApiDevices
    \/ TickCache

NextScan ==
    \/ ScanStart
    \/ ScanFinishAny

----------------------------------------------------------------------------
(* Claims on the scan cache *)

SweepFresh == csweep.done /\ (now - csweep.ts) <= SCAN_CACHE_TTL_SEC

RankedBy(results, F(_)) ==
    \A i, j \in 1..Len(results) :
        i < j =>
            /\ F(results[j]) => F(results[i])
            /\ F(results[i]) = F(results[j]) =>
                  /\ results[i].rssi = NoRssi => results[j].rssi = NoRssi
                  /\ results[j].rssi # NoRssi => results[i].rssi >= results[j].rssi

IsSupported(v) == v.is_supported
IsZp2(v) == v.is_zp2

----------------------------------------------------------------------------
(* run.py: save_json writes scan_cache.json in place (open(path, "w")      *)
(* truncates, json.dump and close fill it in). api_scan is a coroutine on  *)
(* the event loop; api_devices is a plain `def` route, which the framework *)
(* runs in a worker thread, so its load and its clearing save interleave   *)
(* with the event loop's save.                                             *)

EmptyCache == CacheDoc(0, <<>>)

WriterIdle == [pc |-> "idle", payload |-> EmptyCache]
ReaderIdle == [pc |-> "idle", cache |-> EmptyCache, only_zp2 |-> FALSE,
               dirty |-> FALSE]
NoObservation == [by |-> "none", seen |-> EmptyCache, whole |-> {EmptyCache},
                  name |-> <<>>]

IoIdle ==
    /\ cwr = WriterIdle
    /\ crd = ReaderIdle
    /\ cobs = NoObservation
    /\ cwhole = EmptyCache

\* the contents a reader may see if the cache is replaced atomically: the one
\* last written completely, or the one a save in progress is writing
WholeContents ==
    {cwhole}
    \cup (IF cwr.pc = "open" THEN {cwr.payload} ELSE {})
    \cup (IF crd.pc = "open" THEN {EmptyCache} ELSE {})

\* POST /api/scan: results = await do_scan()
RaceScanStart ==
    /\ cwr.pc = "idle"
    /\ cwr' = [cwr EXCEPT !.pc = "await"]
    /\ clast' = "start"
    /\ UNCHANGED <<cfile, cscan, cresp, csweep, cticks, crd, cobs, cwhole,
                   now, pvars, kvars, bvars, xcall>>

\* discover returned; save_json: open(CACHE_PATH, "w") truncates the file
RaceScanOpen ==
    /\ cwr.pc = "await"
    /\ \E devices \in NearbySweeps :
          cwr' = [pc |-> "open", payload |-> CacheDoc(now, do_scan(devices))]
    /\ cfile' = CachePartial
    /\ clast' = "open"
    /\ UNCHANGED <<cscan, cresp, csweep, cticks, crd, cobs, cwhole, now, pvars, kvars, bvars, xcall>>

\* save_json: json.dump and close put the payload (buffered until then)
\* at the start of the file; api_scan returns
RaceScanClose ==
    /\ cwr.pc = "open"
    /\ cfile' = cwr.payload
    /\ cwhole' = cwr.payload
    /\ csweep' = [done |-> TRUE, ts |-> cwr.payload.ts,
                  results |-> cwr.payload.results, found |-> <<>>]
    /\ crd' = IF crd.pc = "open" THEN [crd EXCEPT !.dirty = TRUE] ELSE crd
    /\ cwr' = WriterIdle
    /\ clast' = "scan"
    /\ UNCHANGED <<cscan, cresp, cticks, cobs, now, pvars, kvars, bvars, xcall>>

\* GET /api/devices, in its thread: cache = load_json(CACHE_PATH, ...)
DevLoad ==
    /\ crd.pc = "idle"
    /\ \E only_zp2 \in BOOLEAN :
          crd' = [pc |-> "loaded", cache |-> load_json(cfile),
                  only_zp2 |-> only_zp2, dirty |-> FALSE]
    /\ cobs' = [by |-> "api_devices", seen |-> load_json(cfile),
                whole |-> WholeContents, name |-> <<>>]
    /\ clast' = "load"
    /\ UNCHANGED <<cfile, cscan, cresp, csweep, cticks, cwr, cwhole, now, pvars, kvars, bvars, xcall>>

\* api_devices: not expired, the loaded entries are returned
DevReturn ==
    /\ crd.pc = "loaded"
    /\ ~ CacheExpired(crd.cache, now)
    /\ cresp' = [expired |-> FALSE, age_sec |-> now - crd.cache.ts,
                 devices |-> IF crd.only_zp2 THEN FilterZp2(crd.cache.results)
                             ELSE crd.cache.results,
                 only_zp2 |-> crd.only_zp2]
    /\ crd' = ReaderIdle
    /\ clast' = "read"
    /\ UNCHANGED <<cfile, cscan, csweep, cticks, cwr, cobs, cwhole, now, pvars, kvars, bvars, xcall>>

\* api_devices: expired, save_json of the empty cache opens the file
DevClearOpen ==
    /\ crd.pc = "loaded"
    /\ CacheExpired(crd.cache, now)
    /\ cfile' = CachePartial
    /\ crd' = [crd EXCEPT !.pc = "open", !.dirty = FALSE]
    /\ clast' = "open"
    /\ UNCHANGED <<cscan, cresp, csweep, cticks, cwr, cobs, cwhole, now, pvars, kvars, bvars, xcall>>

\* api_devices: the empty cache is written and closed, expired is returned.
\* Written over a longer payload closed meanwhile it leaves no valid JSON.
DevClearClose ==
    /\ crd.pc = "open"
    /\ cfile' = IF crd.dirty /\ cfile.kind = "doc" THEN CachePartial
                ELSE ClearedCache(cfile)
    /\ cwhole' = IF crd.dirty /\ cfile.kind = "doc" THEN cwhole
                 ELSE ClearedCache(cfile)
    /\ cresp' = [expired |-> TRUE, age_sec |-> now - crd.cache.ts,
                 devices |-> <<>>, only_zp2 |-> crd.only_zp2]
    /\ crd' = ReaderIdle
    /\ clast' = "read"
    /\ UNCHANGED <<cscan, csweep, cticks, cwr, cobs, now, pvars, kvars, bvars, xcall>>

\* find_adv_name_in_cache, called by a coroutine on the event loop (so never
\* while the event loop is inside save_json)
Lookup ==
    /\ cwr.pc # "open"
    /\ \E address \in {"A1", "A3"} :
          cobs' = [by |-> "lookup", seen |-> load_json(cfile),
                   whole |-> WholeContents,
                   name |-> find_adv_name_in_cache(cfile, address)]
    /\ clast' = "lookup"
    /\ UNCHANGED <<cfile, cscan, cresp, csweep, cticks, cwr, crd, cwhole,
                   now, pvars, kvars, bvars, xcall>>

NextCacheRace ==
    \/ RaceScanStart
    \/ RaceScanOpen
    \/ RaceScanClose
    \/ DevLoad
    \/ DevReturn
    \/ DevClearOpen
    \/ DevClearClose
    \/ Lookup

\* C6: when a scan completes the cache file holds that sweep's entries and
\* timestamp, and whatever a cache read or a name lookup loads is a whole
\* content: the one last written completely or the one being written.
C6_WholeSweepReplaces ==
    /\ clast = "scan" => cfile = CacheDoc(csweep.ts, csweep.results)
    /\ cobs.by # "none" => cobs.seen \in cobs.whole

----------------------------------------------------------------------------
(* Crash of the process during a write: profile_store._atomic_write_json   *)
(* (profiles.json) and run.save_json (scan_cache.json)                     *)

NoFile == [kind |-> "missing"]
PartialFile == [kind |-> "partial"]
NoCrashObservation ==
    [file |-> "none", raw |-> NoFile, seen |-> NoFile, old |-> NoFile,
     new |-> NoFile]

CrashIdle ==
    /\ ptmp = NoFile
    /\ kpc = "idle"
    /\ kold = NoFile
    /\ knew = NoFile
    /\ kobs = NoCrashObservation
    /\ kcrashes = 0
    /\ kwrites = 0

\* a profile route accepts a request and starts save_profiles:
\* _atomic_write_json opens profiles.json.tmp for writing
ProfileTmpOpen ==
    /\ kpc = "idle"
    /\ kwrites < MaxWrites
    /\ kwrites' = kwrites + 1
    /\ \E req \in ProfileRequests :
          LET l == load_profiles(pfile)
              r == StoreOp(req, l.doc)
          IN  /\ r.ok
              /\ knew' = save_profiles(r.doc)
              /\ kold' = l.file
    /\ ptmp' = PartialFile
    /\ kpc' = "tmp_open"
    /\ UNCHANGED <<pfile, plock, ppc, preq, pdoc, presp, pserial, pissued,
                   kobs, kcrashes, now, cvars, iovars, bvars, xcall>>

\* json.dump(data, f) and the end of the `with` block: the tmp file is whole
ProfileTmpClose ==
    /\ kpc = "tmp_open"
    /\ ptmp' = knew
    /\ kpc' = "tmp_done"
    /\ UNCHANGED <<kwrites, pvars, kold, knew, kobs, kcrashes, now, cvars, iovars, bvars, xcall>>

\* os.replace(tmp, path)
ProfileReplace ==
    /\ kpc = "tmp_done"
    /\ pfile' = ptmp
    /\ ptmp' = NoFile
    /\ kpc' = "idle"
    /\ UNCHANGED <<kwrites, plock, ppc, preq, pdoc, presp, pserial, pissued,
                   kold, knew, kobs, kcrashes, now, cvars, iovars, bvars, xcall>>

\* api_scan has its results: save_json opens scan_cache.json for writing,
\* which truncates it
CacheOpen ==
    /\ kpc = "idle"
    /\ kwrites < MaxWrites
    /\ kwrites' = kwrites + 1
    /\ \E devices \in NearbySweeps :
          knew' = CacheDoc(now, do_scan(devices))
    /\ kold' = cfile
    /\ cfile' = CachePartial
    /\ kpc' = "cache_open"
    /\ UNCHANGED <<cscan, cresp, clast, csweep, cticks, ptmp, kobs, kcrashes,
                   now, pvars, iovars, bvars, xcall>>

\* json.dump(obj, f) and the end of the `with` block
CacheClose ==
    /\ kpc = "cache_open"
    /\ cfile' = knew
    /\ kpc' = "idle"
    /\ UNCHANGED <<kwrites, cscan, cresp, clast, csweep, cticks, ptmp, kold, knew, kobs,
                   kcrashes, now, pvars, iovars, bvars, xcall>>

\* the process dies during a write; the files stay as they are
Crash ==
    /\ kpc \in {"tmp_open", "tmp_done", "cache_open"}
    /\ kcrashes < MaxCrashes
    /\ kcrashes' = kcrashes + 1
    /\ kpc' = IF kpc = "cache_open" THEN "crashed_cache" ELSE "crashed_profiles"
    /\ UNCHANGED <<kwrites, ptmp, kold, knew, kobs, now, pvars, cvars, iovars, bvars, xcall>>

\* the process is started again and the file that was being written is read:
\* load_profiles for profiles.json, load_json for scan_cache.json
ReadAfterRestart ==
    /\ kpc \in {"crashed_cache", "crashed_profiles"}
    /\ kobs' = IF kpc = "crashed_cache"
               THEN [file |-> "scan_cache", raw |-> cfile,
                     seen |-> load_json(cfile), old |-> load_json(kold),
                     new |-> knew]
               ELSE [file |-> "profiles", raw |-> pfile,
                     seen |-> load_profiles(pfile).file, old |-> kold,
                     new |-> knew]
    /\ pfile' = load_profiles(pfile).file
    /\ kpc' = "idle"
    /\ UNCHANGED <<kwrites, plock, ppc, preq, pdoc, presp, pserial, pissued,
                   ptmp, kold, knew, kcrashes, now, cvars, iovars, bvars, xcall>>

NextCrash ==
    \/ ProfileTmpOpen
    \/ ProfileTmpClose
    \/ ProfileReplace
    \/ CacheOpen
    \/ CacheClose
    \/ Crash
    \/ ReadAfterRestart

\* C7: after a crash at any point of a write of profiles.json or of
\* scan_cache.json, the reader that comes next finds the file whole, with the
\* content it had before the write or the content that was being written.
C7_CrashLeavesOldOrNew ==
    kobs.file # "none" =>
        /\ kobs.raw.kind # "partial"
        /\ kobs.seen \in {kobs.old, kobs.new}

----------------------------------------------------------------------------
(* run.py: text and bytes. A str is a sequence of characters, a bytes value *)
(* a sequence of byte values.                                               *)

Lowercase ==
    <<"a", "b", "c", "d", "e", "f", "g", "h", "i", "j", "k", "l", "m",
      "n", "o", "p", "q", "r", "s", "t", "u", "v", "w", "x", "y", "z">>
Uppercase ==
    <<"A", "B", "C", "D", "E", "F", "G", "H", "I", "J", "K", "L", "M",
      "N", "O", "P", "Q", "R", "S", "T", "U", "V", "W", "X", "Y", "Z">>
Digits == <<"0", "1", "2", "3", "4", "5", "6", "7", "8", "9">>
\* the other characters of the model and their bytes; "<NUL>" and "<SOH>"
\* are U+0000 and U+0001
OtherChars == <<"<NUL>", "<SOH>", " ", "-", ".", "/", ":">>
OtherBytes == <<0, 1, 32, 45, 46, 47, 58>>

InSeq(sq, c) == \E i \in 1..Len(sq) : sq[i] = c
IndexIn(sq, c) == CHOOSE i \in 1..Len(sq) : sq[i] = c

\* the UTF-8 byte of a character (all characters of the model are ASCII)
Ord(c) ==
    IF InSeq(Lowercase, c) THEN 96 + IndexIn(Lowercase, c)
    ELSE IF InSeq(Uppercase, c) THEN 64 + IndexIn(Uppercase, c)
    ELSE IF InSeq(Digits, c) THEN 47 + IndexIn(Digits, c)
    ELSE IF InSeq(OtherChars, c) THEN OtherBytes[IndexIn(OtherChars, c)]
    ELSE 63

\* the character of a byte, "?" standing for the replacement character
Chr(b) ==
    IF b \in 97..122 THEN Lowercase[b - 96]
    ELSE IF b \in 65..90 THEN Uppercase[b - 64]
    ELSE IF b \in 48..57 THEN Digits[b - 47]
    ELSE IF InSeq(OtherBytes, b) THEN OtherChars[IndexIn(OtherBytes, b)]
    ELSE "?"

\* str.lower()
LowerChar(c) ==
    IF InSeq(Uppercase, c) THEN Lowercase[IndexIn(Uppercase, c)] ELSE c

Lower(s) == [i \in 1..Len(s) |-> LowerChar(s[i])]

\* s.replace("\x00", "")
RECURSIVE DropNul(_)
DropNul(s) ==
    IF s = <<>> THEN <<>>
    ELSE IF Head(s) = "<NUL>" THEN DropNul(Tail(s))
         ELSE <<Head(s)>> \o DropNul(Tail(s))

_bytes_to_text(b) ==
    IF b = <<>> THEN <<>>
    ELSE Strip(DropNul([i \in 1..Len(b) |-> Chr(b[i])]))

_encode_text(s) == [i \in 1..Len(s) |-> Ord(s[i])]

----------------------------------------------------------------------------
(* profiles/zp2_profile.py: what the handlers ask of the resolved profile *)

\* mutant: the default port is the TLS port
MQTT_PORT_Tls == <<":", "8", "8", "8", "3">>

\* the port and the topic encode_mqtt appends
MQTT_PORT == <<":", "1", "8", "8", "3">>
MQTT_TOPIC == <<"/", "t", "e", "s", "t", "/", "t", "e", "s", "t">>

encode_mqtt(profile_mqtt) ==
    LET s == Strip(profile_mqtt)
    IN  IF s = <<>> THEN <<>>
        ELSE IF Contains(s, <<"/">>) THEN s
        ELSE (IF Contains(s, <<":">>) THEN s ELSE s \o MQTT_PORT) \o MQTT_TOPIC

\* decode_text (decode_ip, decode_fw_version, decode_model and decode_mqtt
\* return it): utf-8, NUL removed, stripped
decode_text(raw) ==
    IF raw = <<>> THEN <<>>
    ELSE Strip(DropNul([i \in 1..Len(raw) |-> Chr(raw[i])]))

\* decode_mode: by the first byte, b"0" AWS and b"1" LOCAL; anything else is
\* returned as stripped text
decode_mode(raw) ==
    LET b0 == SubSeq(raw, 1, IF Len(raw) >= 1 THEN 1 ELSE 0)
    IN  IF b0 = _encode_text(<<"0">>) THEN MODE_AWS
        ELSE IF b0 = _encode_text(<<"1">>) THEN MODE_LOCAL
        ELSE Strip([i \in 1..Len(raw) |-> Chr(raw[i])])

\* run.py calls the profile's build_mqtt_text, the former name of encode_mqtt
build_mqtt_text(profile_mqtt) == encode_mqtt(profile_mqtt)

\* mutant: encode_mode writes "1" for AWS and "0" for everything else
encode_mode_Swapped(mode) ==
    IF Upper(Strip(mode)) = MODE_AWS THEN <<"1">> ELSE <<"0">>

\* encode_mode: "0" for AWS, "1" otherwise
encode_mode(mode) ==
    LET m == Upper(Strip(mode))
    IN  IF m = MODE_AWS THEN <<"0">> ELSE <<"1">>

\* encode_wifi_combo: ssid(utf-8) + 0x00 + password(utf-8)
encode_wifi_combo(ssid, password) ==
    _encode_text(ssid) \o <<0>> \o _encode_text(password)

\* the codec functions called on their own
NoCall ==
    [fn |-> "none", a |-> <<>>, b |-> <<>>, raw |-> <<>>, text |-> <<>>,
     bytes |-> <<>>]

CodecIdle == xcall = NoCall

\* the characteristics api_fetch_details reads, in the order it reads them
FETCH_READS ==
    <<"CH_IP", "CH_WIFI_COMBO", "CH_MODE", "CH_MQTT", "CH_MODEL", "CH_FW">>

\* mutant: the MQTT text is written before the mode
WRITE_PIPELINE_MqttFirst == <<"CH_MQTT", "CH_MODE", "CH_WIFI_COMBO">>

\* the characteristics api_write_profile writes, in the order it writes them
WRITE_PIPELINE == <<"CH_MODE", "CH_MQTT", "CH_WIFI_COMBO">>

----------------------------------------------------------------------------
(* run.py: the batch operations api_fetch_details, api_write_profile and    *)
(* api_send_command. Each step is the code from one await to the next.      *)

\* the addresses a client names: A1 advertises a supported name; A3 does
\* not, or is not in the cache
Addresses == {"A1", "A3"}

TargetLists == UNION { [1..n -> Addresses] : n \in 0..MaxTargets }

CMD_RESET == <<"r", "e", "s", "e", "t">>
CMD_REBOOT == <<"r", "e", "b", "o", "o", "t">>

BatchReq(op, targets, profile_id, command) ==
    [op |-> op, targets |-> targets, profile_id |-> profile_id,
     command |-> command]

BatchRequests ==
    { BatchReq("fetch", t, <<>>, <<>>) : t \in TargetLists }
    \cup { BatchReq("write", t, p, <<>>) :
              t \in TargetLists,
              p \in {<<"a">>, <<" ", "b">>, <<"z">>, <<" ">>} }
    \cup { BatchReq("command", t, <<>>, c) :
              t \in TargetLists,
              c \in {CMD_RESET, <<" ", "R", "e", "b", "o", "o", "t">>, <<"x">>} }

NoBatchRequest == BatchReq("none", <<>>, <<>>, <<>>)

\* responses: kind "error" is {"ok": False, "error": ...}, kind "results" is
\* {"ok": True, ..., "results": [...]}, kind "exception" is an exception that
\* leaves the handler
NoBatchResponse ==
    [kind |-> "none", error |-> "", results |-> <<>>, mode_text |-> <<>>,
     mqtt_text |-> <<>>]

ErrorResponse(e) == [NoBatchResponse EXCEPT !.kind = "error", !.error = e]

\* fields of a fetch_details item; they stay empty in the other operations
NoDetails ==
    [mode |-> <<>>, ssid |-> <<>>, mqtt |-> <<>>, ip |-> <<>>, model |-> <<>>,
     fw_version |-> <<>>]

NewItem(address) ==
    [address |-> address, ok |-> FALSE, error |-> "None", details |-> NoDetails]

\* write_profile's locals: the fields taken from user_profile, and the
\* values bound in the loop (bound = FALSE while mode_text and mqtt_text have
\* not been assigned)
NoLocals ==
    [mode |-> <<>>, ssid |-> <<>>, password |-> <<>>, mqtt_in |-> <<>>,
     bound |-> FALSE, mode_text |-> <<>>, mqtt_text |-> <<>>,
     wifi_payload |-> <<>>]

Event(e, ep, data, out) == [e |-> e, ep |-> ep, data |-> data, out |-> out]

\* what a device may hold in each characteristic api_fetch_details reads:
\* the mode as the byte 0x01, as the text "0" or "01", or nothing
DeviceValues(address, ep) ==
    CASE ep = "CH_IP" -> {_encode_text(<<"1", ".", "2">>) \o <<0>>}
      [] ep = "CH_WIFI_COMBO" -> {_encode_text(<<"s">>)}
      [] ep = "CH_MODE" ->
            {<<1>>, _encode_text(<<"0">>), _encode_text(<<"0", "1">>), <<>>}
      [] ep = "CH_MQTT" -> {_encode_text(<<"h", ":", "9">>)}
      [] ep = "CH_MODEL" -> {_encode_text(<<"Z", "P", "2", " ">>)}
      [] OTHER -> {_encode_text(<<"1">>)}

\* api_fetch_details: mode_v from the bytes read
FetchMode(mode_b) ==
    IF mode_b = <<>> THEN <<>>
    ELSE IF mode_b[1] \in {0, 1}
         THEN (IF mode_b[1] = 0 THEN MODE_AWS ELSE MODE_LOCAL)
         ELSE LET t == _bytes_to_text(mode_b)
              IN  IF t = <<"0">> THEN MODE_AWS
                  ELSE IF t = <<"1">> THEN MODE_LOCAL ELSE t

\* api_fetch_details: the item after the six reads, read[k] being the bytes
\* of the k-th read (ip, ssid, mode, mqtt, model, fw)
FetchedItem(item, read) ==
    [item EXCEPT
        !.ok = TRUE,
        !.details =
            [mode |-> FetchMode(read[3]),
             ssid |-> _bytes_to_text(read[2]),
             mqtt |-> _bytes_to_text(read[4]),
             ip |-> _bytes_to_text(read[1]),
             model |-> _bytes_to_text(read[5]),
             fw_version |-> _bytes_to_text(read[6])]]

\* mutant: send_command does not check the command
Validate_AnyCommand(req) ==
    CASE req.op = "write" ->
            IF req.targets = <<>> THEN "targets is empty"
            ELSE IF Strip(req.profile_id) = <<>> THEN "profile_id is empty"
            ELSE ""
      [] req.op = "command" ->
            IF req.targets = <<>> THEN "targets is empty" ELSE ""
      [] OTHER -> ""

\* the up-front checks: the error returned, "" when the request passes
Validate(req) ==
    CASE req.op = "write" ->
            IF req.targets = <<>> THEN "targets is empty"
            ELSE IF Strip(req.profile_id) = <<>> THEN "profile_id is empty"
            ELSE ""
      [] req.op = "command" ->
            IF Lower(Strip(req.command)) \notin {CMD_RESET, CMD_REBOOT}
            THEN "invalid command"
            ELSE IF req.targets = <<>> THEN "targets is empty"
            ELSE ""
      [] OTHER -> ""

\* the transport operations of a connected turn, and the bytes written
IoPlan(req) ==
    CASE req.op = "fetch" -> FETCH_READS
      [] req.op = "write" -> WRITE_PIPELINE
      [] OTHER -> <<"CH_COMMAND">>

IoData(req, locals, ep) ==
    CASE req.op = "fetch" -> <<>>
      [] req.op = "command" -> _encode_text(Lower(Strip(req.command)))
      [] ep = "CH_MODE" -> _encode_text(locals.mode_text)
      [] ep = "CH_MQTT" -> _encode_text(locals.mqtt_text)
      [] OTHER -> locals.wifi_payload

\* the `return` after the loop
FinalResponse(req, locals, results) ==
    IF req.op = "write" /\ ~ locals.bound
    THEN [NoBatchResponse EXCEPT !.kind = "exception",
                                 !.error = "UnboundLocalError"]
    ELSE [NoBatchResponse EXCEPT !.kind = "results", !.results = results,
                                 !.mode_text = locals.mode_text,
                                 !.mqtt_text = locals.mqtt_text]

\* mutant: a failing disconnect is recorded as the target's error
AfterDisconnectFailure_Record(item) ==
    [item EXCEPT !.ok = FALSE, !.error = "disconnect failed"]

\* finally: `except Exception: pass` around the disconnect
AfterDisconnectFailure(item) == item

\* mutant: the finally block does not disconnect
ShouldDisconnect_Never(link) == FALSE

\* finally: `client is not None and client.is_connected`
ShouldDisconnect(link) == link = "up"

\* mutant: the loop stops at the first target that failed
MoreTargets_StopOnFailure(i, targets, item) == i < Len(targets) /\ item.ok

\* `for address in targets`: after the turn of target i, whatever its item
MoreTargets(i, targets, item) == i < Len(targets)

\* mutant: a target whose turn failed is tried again
NextIndex_Retry(i, item) == IF item.ok THEN i + 1 ELSE i

\* `for address in targets`: the index of the target after target i
NextIndex(i, item) == i + 1

\* mutant: every turn takes the fields from the profile as it is stored at
\* that moment (empty fields if it is gone)
UserFields_Reread(locals, f, req) ==
    LET profiles == load_profiles(f).doc.profiles
        idx == IndexOfId(profiles, Strip(req.profile_id))
    IN  IF idx = 0
        THEN [locals EXCEPT !.mode = <<>>, !.ssid = <<>>, !.password = <<>>,
                            !.mqtt_in = <<>>]
        ELSE [locals EXCEPT !.mode = Upper(Strip(profiles[idx].mode)),
                            !.ssid = Strip(profiles[idx].ssid),
                            !.password = Strip(profiles[idx].password),
                            !.mqtt_in = Strip(profiles[idx].mqtt)]

\* the loop of api_write_profile uses mode, ssid, password and mqtt_in as
\* they were bound before it; it does not read the profile file
UserFields(locals, f, req) == locals

BatchIdle ==
    /\ breq = NoBatchRequest
    /\ bpc = "idle"
    /\ bi = 0
    /\ bstep = 0
    /\ blink = "none"
    /\ badv = <<>>
    /\ bitem = NewItem("")
    /\ bread = <<>>
    /\ bresults = <<>>
    /\ blocals = NoLocals
    /\ bret = NoBatchResponse
    /\ bresp = NoBatchResponse
    /\ blog = <<>>
    /\ bturns = <<>>
    /\ bopen = {}

notBatch == <<plock, ppc, preq, pdoc, presp, pserial, pissued, now, cvars,
              iovars, kvars, xcall>>

\* no turn in progress
NoTurn ==
    /\ bi' = 0
    /\ bstep' = 0
    /\ blink' = "none"
    /\ badv' = <<>>
    /\ bitem' = NewItem("")
    /\ bread' = <<>>

\* the head of the loop body for target i: item = {...}, client = None; in
\* api_send_command the try block starts by creating the client
StartTurn(req, i, log) ==
    /\ bi' = i
    /\ bstep' = 0
    /\ badv' = <<>>
    /\ bitem' = NewItem(req.targets[i])
    /\ bread' = <<>>
    /\ blink' = IF req.op = "command" THEN "created" ELSE "none"
    /\ bpc' = IF req.op = "command" THEN "connect" ELSE "resolve"
    /\ blog' = Append(log, <<>>)

\* a batch request arrives: the up-front checks, then the first turn
\* (api_write_profile first waits for PROFILE_LOCK); a behaviour follows one
\* batch from its request to its response
BatchRequest ==
    /\ bpc = "idle"
    /\ \E req \in BatchRequests :
          /\ breq' = req
          /\ IF Validate(req) # ""
             THEN /\ bresp' = ErrorResponse(Validate(req))
                  /\ bpc' = "done"
                  /\ blog' = <<>>
                  /\ NoTurn
             ELSE IF req.op = "write"
             THEN /\ bresp' = NoBatchResponse
                  /\ bpc' = "lock"
                  /\ blog' = <<>>
                  /\ NoTurn
             ELSE IF req.targets = <<>>
             THEN /\ bresp' = FinalResponse(req, NoLocals, <<>>)
                  /\ bpc' = "done"
                  /\ blog' = <<>>
                  /\ NoTurn
             ELSE /\ bresp' = NoBatchResponse
                  /\ StartTurn(req, 1, <<>>)
    /\ bresults' = <<>>
    /\ blocals' = NoLocals
    /\ bret' = NoBatchResponse
    /\ bturns' = <<>>
    /\ bopen' = {}
    /\ UNCHANGED <<pfile, notBatch>>

\* api_write_profile: under PROFILE_LOCK, load_profiles and pick the profile;
\* then the fields of user_profile are taken and the loop starts
LoadUserProfile ==
    /\ bpc = "lock"
    /\ LockFree
    /\ LET l == load_profiles(pfile)
           pid == Strip(breq.profile_id)
           idx == IndexOfId(l.doc.profiles, pid)
       IN  /\ pfile' = l.file
           /\ IF idx = 0
              THEN /\ bresp' = ErrorResponse("profile not found")
                   /\ bpc' = "done"
                   /\ UNCHANGED <<bi, bstep, blink, badv, bitem, bread,
                                  blocals, blog>>
              ELSE /\ blocals' =
                        [NoLocals EXCEPT
                            !.mode = Upper(Strip(l.doc.profiles[idx].mode)),
                            !.ssid = Strip(l.doc.profiles[idx].ssid),
                            !.password = Strip(l.doc.profiles[idx].password),
                            !.mqtt_in = Strip(l.doc.profiles[idx].mqtt)]
                   /\ StartTurn(breq, 1, <<>>)
                   /\ UNCHANGED bresp
    /\ UNCHANGED <<breq, bresults, bret, bturns, bopen, notBatch>>

\* adv_name = find_adv_name_in_cache(address); the profile is resolved from
\* it; api_write_profile then builds its payloads and returns if the MQTT
\* text is empty; api_fetch_details and api_write_profile create the client
Resolve ==
    /\ bpc = "resolve"
    /\ LET adv_name == find_adv_name_in_cache(cfile, bitem.address)
           profile == get_profile_by_adv_name(adv_name)
           user == UserFields(blocals, pfile, breq)
           mqtt_text == build_mqtt_text(user.mqtt_in)
       IN  /\ badv' = adv_name
           /\ IF profile = <<>>
              THEN /\ bitem' = [bitem EXCEPT !.error = "unsupported device"]
                   /\ bpc' = "finally"
                   /\ UNCHANGED <<blink, blocals, bret>>
              ELSE IF breq.op = "write"
              THEN /\ blocals' =
                        [user EXCEPT
                            !.bound = TRUE,
                            !.mqtt_text = mqtt_text,
                            !.mode_text = IF user.mode = MODE_AWS
                                          THEN <<"0">> ELSE <<"1">>,
                            !.wifi_payload = _encode_text(user.ssid) \o <<0>>
                                             \o _encode_text(user.password)]
                   /\ IF mqtt_text = <<>>
                      THEN /\ bret' = ErrorResponse("profile.mqtt is empty")
                           /\ bpc' = "finally"
                           /\ UNCHANGED blink
                      ELSE /\ blink' = "created"
                           /\ bpc' = "connect"
                           /\ UNCHANGED bret
                   /\ UNCHANGED bitem
              ELSE /\ blink' = IF breq.op = "fetch" THEN "created" ELSE blink
                   /\ bpc' = IF breq.op = "fetch" THEN "connect" ELSE "io"
                   /\ UNCHANGED <<bitem, blocals, bret>>
    /\ UNCHANGED <<breq, bi, bstep, bread, bresults, bresp, blog, bturns,
                   bopen, pfile, notBatch>>

\* await client.connect(); await asyncio.sleep(0.2)
Connect ==
    /\ bpc = "connect"
    /\ \E out \in {"ok", "fail"} :
          IF out = "ok"
          THEN /\ blink' = "up"
               /\ blog' = [blog EXCEPT ![bi] =
                              @ \o <<Event("connect", "", <<>>, out),
                                     Event("settle", "", <<>>, "ok")>>]
               /\ bpc' = IF breq.op = "command" THEN "resolve" ELSE "io"
               /\ UNCHANGED bitem
          ELSE /\ bitem' = [bitem EXCEPT !.error = "connect failed"]
               /\ blog' = [blog EXCEPT ![bi] =
                              Append(@, Event("connect", "", <<>>, out))]
               /\ bpc' = "finally"
               /\ UNCHANGED blink
    /\ UNCHANGED <<breq, bi, bstep, badv, bread, bresults, blocals, bret,
                   bresp, bturns, bopen, pfile, notBatch>>

\* the next _read_in_service / _write_in_service of the turn (each write of
\* api_write_profile is followed by asyncio.sleep(0.15)); it raises when the
\* service or characteristic is not found or the transfer fails, with the
\* link left up ("not_found") or dropped ("lost"); after the last one the
\* item is marked ok
IoStep ==
    /\ bpc = "io"
    /\ LET plan == IoPlan(breq)
           ep == plan[bstep + 1]
           last == bstep + 1 = Len(plan)
           op == IF breq.op = "fetch" THEN "read" ELSE "write"
           data == IoData(breq, blocals, ep)
       IN  \E out \in {"ok", "not_found", "lost"} :
              IF out = "ok"
              THEN /\ bstep' = bstep + 1
                   /\ blog' = [blog EXCEPT ![bi] =
                        @ \o <<Event(op, ep, data, out)>>
                          \o (IF breq.op = "write"
                              THEN <<Event("pause", "", <<>>, "ok")>> ELSE <<>>)
                          \o (IF last
                              THEN <<Event("ok", "", <<>>, "ok")>> ELSE <<>>)]
                   /\ \E raw \in (IF breq.op = "fetch"
                                   THEN DeviceValues(bitem.address, ep)
                                   ELSE {<<>>}) :
                         /\ bread' = IF breq.op = "fetch"
                                     THEN Append(bread, raw) ELSE bread
                         /\ bitem' = IF ~ last THEN bitem
                                     ELSE IF breq.op = "fetch"
                                     THEN FetchedItem(bitem, Append(bread, raw))
                                     ELSE [bitem EXCEPT !.ok = TRUE]
                   /\ bpc' = IF last THEN "finally" ELSE "io"
                   /\ UNCHANGED blink
              ELSE /\ bitem' = [bitem EXCEPT !.error =
                                   IF out = "lost" THEN "transfer failed"
                                   ELSE "service or char not found"]
                   /\ blog' = [blog EXCEPT ![bi] =
                                  Append(@, Event(op, ep, data, out))]
                   /\ blink' = IF out = "lost" THEN "lost" ELSE blink
                   /\ bpc' = "finally"
                   /\ UNCHANGED <<bstep, bread>>
    /\ UNCHANGED <<breq, bi, badv, bresults, blocals, bret, bresp, bturns,
                   bopen, pfile, notBatch>>

\* the finally block: disconnect if connected, a failure of it swallowed;
\* then the pending return, or results.append(item) and the next target, or
\* the return after the loop
Finally ==
    /\ bpc = "finally"
    /\ \E out \in (IF ShouldDisconnect(blink) THEN {"ok", "fail"} ELSE {"skip"}) :
          LET item == IF out = "fail" THEN AfterDisconnectFailure(bitem)
                      ELSE bitem
              link == IF out = "ok" THEN "closed" ELSE blink
              log == IF out = "skip" THEN blog
                     ELSE [blog EXCEPT ![bi] =
                              Append(@, Event("disconnect", "", <<>>, out))]
              results == Append(bresults, item)
          IN  /\ bturns' = Append(bturns,
                     [address |-> bitem.address, adv_name |-> badv,
                      link |-> blink, disc |-> out, item_at_exit |-> bitem,
                      item |-> item, returned |-> bret.kind # "none",
                      read |-> bread])
              /\ bopen' = IF link = "up" THEN bopen \cup {bi} ELSE bopen
              /\ IF bret.kind # "none"
                 THEN /\ bresp' = bret
                      /\ bpc' = "done"
                      /\ blog' = log
                      /\ NoTurn
                      /\ UNCHANGED bresults
                 ELSE IF MoreTargets(bi, breq.targets, item)
                 THEN /\ bresults' = results
                      /\ StartTurn(breq, NextIndex(bi, item), log)
                      /\ UNCHANGED bresp
                 ELSE /\ bresults' = results
                      /\ bresp' = FinalResponse(breq, blocals, results)
                      /\ bpc' = "done"
                      /\ blog' = log
                      /\ NoTurn
    /\ UNCHANGED <<breq, blocals, bret, pfile, notBatch>>

NextBatch ==
    \/ BatchRequest
    \/ LoadUserProfile
    \/ Resolve
    \/ Connect
    \/ IoStep
    \/ Finally

----------------------------------------------------------------------------
(* Claims on the batch operations *)

\* the transport operations of turn t, without payloads and outcomes
Steps(t) == [k \in 1..Len(blog[t]) |-> <<blog[t][k].e, blog[t][k].ep>>]

\* turn t connected and did not lose the link before its finally block
ConnectedAtExit(t) ==
    /\ \E k \in 1..Len(blog[t]) :
          blog[t][k].e = "connect" /\ blog[t][k].out = "ok"
    /\ \A k \in 1..Len(blog[t]) : blog[t][k].out # "lost"

\* every connect, read and write turn t made succeeded
TransportOk(t) ==
    \A k \in 1..Len(blog[t]) :
        blog[t][k].e \in {"connect", "read", "write"} => blog[t][k].out = "ok"

\* C8: in fetch-details, write-profile and send-command, whichever way a
\* target's turn ends (success, failed read or write, missing service or
\* characteristic, unsupported device, failed connect, the early return of
\* the whole batch), a disconnect is attempted as the turn's last transport
\* operation if the session is connected; a failing disconnect leaves the
\* item's success flag and error as they were, and that item is what the
\* results list holds; after a successful disconnect the turn's link is not
\* left connected.
C8_DisconnectOnEveryExit ==
    \A t \in 1..Len(bturns) :
        /\ ConnectedAtExit(t) =>
              /\ bturns[t].disc \in {"ok", "fail"}
              /\ blog[t][Len(blog[t])].e = "disconnect"
        /\ bturns[t].item = bturns[t].item_at_exit
        /\ ~ bturns[t].returned => bresults[t] = bturns[t].item_at_exit
        /\ bturns[t].disc = "ok" => t \notin bopen

\* C8 witness: a turn failed on a read or write with the link up, its
\* disconnect failed and the item kept that error; the next turn ended with
\* a successful disconnect.
C8_Witness ==
    \E t \in 1..Len(bturns) :
        /\ t < Len(bturns)
        /\ bturns[t].disc = "fail"
        /\ bresults[t].error = "service or char not found"
        /\ t \in bopen
        /\ bturns[t + 1].disc = "ok"

\* connect, settle delay, write mode, pause, write MQTT, pause, write Wi-Fi
\* combo, pause, success recorded, disconnect
WriteSequence ==
    << <<"connect", "">>, <<"settle", "">>,
       <<"write", "CH_MODE">>, <<"pause", "">>,
       <<"write", "CH_MQTT">>, <<"pause", "">>,
       <<"write", "CH_WIFI_COMBO">>, <<"pause", "">>,
       <<"ok", "">>, <<"disconnect", "">> >>

\* C9: in write-profile with a non-blank MQTT field, a finished turn whose
\* advertised name resolves to a codec and whose connect and writes all
\* succeeded has performed exactly connect, settle delay, write mode, pause,
\* write MQTT, pause, write Wi-Fi combo, pause, in that order, has then
\* recorded success for the target and has then disconnected.
C9_WritePipelineOrder ==
    (breq.op = "write" /\ blocals.mqtt_in # <<>>) =>
        \A t \in 1..Len(bturns) :
            (get_profile_by_adv_name(bturns[t].adv_name) # <<>> /\ TransportOk(t))
            => /\ bturns[t].item.ok
               /\ bturns[t].item.error = "None"
               /\ bresults[t] = bturns[t].item
               /\ Steps(t) = WriteSequence

\* C9 witness: a write-profile batch has returned its results, one target
\* written in full and another one failed.
C9_Witness ==
    /\ bpc = "done" /\ breq.op = "write" /\ bresp.kind = "results"
    /\ \E t, u \in 1..Len(bresults) :
          /\ bresults[t].ok /\ Steps(t) = WriteSequence
          /\ ~ bresults[u].ok

\* the stored profile the request names has a blank MQTT field
BlankStored ==
    LET doc == load_profiles(pfile).doc
        idx == IndexOfId(doc.profiles, Strip(breq.profile_id))
    IN  idx > 0 /\ Strip(doc.profiles[idx].mqtt) = <<>>

\* C10: write-profile with a stored profile whose MQTT field is blank and a
\* non-empty list of targets returns a single top-level failure, with no
\* per-target result list and without having opened a connection.
C10_BlankMqttSingleFailure ==
    (bpc = "done" /\ breq.op = "write" /\ breq.targets # <<>> /\ BlankStored)
    => /\ bresp.kind = "error"
       /\ bresp.results = <<>>
       /\ \A t \in 1..Len(blog) : blog[t] = <<>>

\* the codec resolves from the name the cache holds for turn t's address
ResolvesAt(t) ==
    get_profile_by_adv_name(find_adv_name_in_cache(cfile, bturns[t].address)) # <<>>

\* turn t connected and made every read or write of its operation
CompletedAt(t) ==
    /\ \E k \in 1..Len(blog[t]) :
          blog[t][k].e = "connect" /\ blog[t][k].out = "ok"
    /\ TransportOk(t)
    /\ Cardinality({k \in 1..Len(blog[t]) : blog[t][k].e \in {"read", "write"}})
          = Len(IoPlan(breq))

\* fetch-details, send-command, or write-profile with a non-blank MQTT field
PerTargetBatch ==
    \/ breq.op \in {"fetch", "command"}
    \/ breq.op = "write" /\ blocals.mqtt_in # <<>>

\* C11: in fetch-details, write-profile with a non-blank MQTT field and
\* send-command, the turns run are those of the targets in list order, the
\* turn after a finished one is started whatever that one's outcome, a batch
\* that got past its up-front checks ends only after a turn for every target,
\* and the success recorded for a target is decided by that target's own
\* lookup and transport outcomes alone.
C11_FailuresDoNotStopBatch ==
    PerTargetBatch =>
        /\ \A t \in 1..Len(bturns) :
              /\ bturns[t].address = breq.targets[t]
              /\ bresults[t].address = breq.targets[t]
              /\ bresults[t].ok <=> (ResolvesAt(t) /\ CompletedAt(t))
        /\ bpc \in {"resolve", "connect", "io", "finally"} => bi = Len(bturns) + 1
        /\ (bpc = "done" /\ bresp.kind # "error") =>
              Len(bturns) = Len(breq.targets)

\* C11 witness: a batch has ended in which a target failed to connect and a
\* later target succeeded.
C11_Witness ==
    /\ bpc = "done"
    /\ \E t, u \in 1..Len(bresults) :
          /\ t < u
          /\ bresults[t].error = "connect failed"
          /\ bresults[u].ok

\* the request got past the up-front checks: for write-profile the targets
\* and the profile id are given, the profile is stored and its MQTT field is
\* not blank; for send-command the command is known and targets are given
PassedChecks ==
    /\ Validate(breq) = ""
    /\ breq.op = "write" =>
          LET doc == load_profiles(pfile).doc
              idx == IndexOfId(doc.profiles, Strip(breq.profile_id))
          IN  idx > 0 /\ Strip(doc.profiles[idx].mqtt) # <<>>

\* C12: a fetch-details, write-profile or send-command batch that got past
\* its up-front checks returns the overall success flag and a list with one
\* result per supplied target, in target order, whichever targets failed.
C12_OneResultPerTarget ==
    (bpc = "done" /\ PassedChecks) =>
        /\ bresp.kind = "results"
        /\ Len(bresp.results) = Len(breq.targets)
        /\ \A t \in 1..Len(bresp.results) :
              bresp.results[t].address = breq.targets[t]

\* the request fails validation: write-profile with no targets, with an
\* empty profile id or with an id that is not stored; send-command with no
\* targets or with a command other than reset and reboot
InvalidRequest ==
    \/ /\ breq.op = "write"
       /\ \/ breq.targets = <<>>
          \/ Strip(breq.profile_id) = <<>>
          \/ ~ HasId(load_profiles(pfile).doc, Strip(breq.profile_id))
    \/ /\ breq.op = "command"
       /\ \/ breq.targets = <<>>
          \/ Lower(Strip(breq.command)) \notin {CMD_RESET, CMD_REBOOT}

\* C13: a write-profile or send-command request that fails validation gets
\* a whole-operation failure, and at no point of serving it is a turn
\* started or a connection attempted.
C13_InvalidRequestFailsWhole ==
    InvalidRequest =>
        /\ bpc \in {"lock", "done"}
        /\ blog = <<>> /\ bturns = <<>> /\ bresults = <<>> /\ blink = "none"
        /\ bpc = "done" => bresp.kind = "error" /\ bresp.results = <<>>

\* C13 witness: a write-profile request naming a profile that is not stored,
\* with targets, has been answered.
C13_Witness ==
    /\ bpc = "done" /\ breq.op = "write" /\ breq.targets # <<>>
    /\ Strip(breq.profile_id) # <<>>
    /\ bresp.error = "profile not found"

\* the session of turn t is held open: it connected, did not lose the link,
\* and its disconnect has not been attempted
InUse(t) ==
    /\ \E k \in 1..Len(blog[t]) :
          blog[t][k].e = "connect" /\ blog[t][k].out = "ok"
    /\ \A k \in 1..Len(blog[t]) :
          blog[t][k].out # "lost" /\ blog[t][k].e # "disconnect"

C15_ResolveBeforeConnect ==
    \A t \in 1..Len(blog) :
        get_profile_by_adv_name(find_adv_name_in_cache(cfile, breq.targets[t])) = <<>>
        => /\ \A k \in 1..Len(blog[t]) : blog[t][k].e # "connect"
           /\ t <= Len(bturns) => bturns[t].item.error = "unsupported device"

\* C16: in fetch-details a finished turn whose advertised name resolves to
\* a codec and whose connect and six reads all succeeded is recorded with
\* success, each text field being the codec's decode_text of the bytes read
\* from its endpoint and the mode being the codec's decode_mode of the bytes
\* read from the mode endpoint.
C16_FetchDecodesByCodec ==
    breq.op = "fetch" =>
        \A t \in 1..Len(bturns) :
            (ResolvesAt(t) /\ CompletedAt(t)) =>
                /\ bresults[t].ok
                /\ bresults[t].error = "None"
                /\ bresults[t].details.ip = decode_text(bturns[t].read[1])
                /\ bresults[t].details.ssid = decode_text(bturns[t].read[2])
                /\ bresults[t].details.mqtt = decode_text(bturns[t].read[4])
                /\ bresults[t].details.model = decode_text(bturns[t].read[5])
                /\ bresults[t].details.fw_version = decode_text(bturns[t].read[6])
                /\ bresults[t].details.mode = decode_mode(bturns[t].read[3])

----------------------------------------------------------------------------
(* profiles.json as the store finds it: claims on load_profiles and        *)
(* save_profiles                                                           *)

\* a profile in the canonical shape, and one that is not: fields missing, a
\* key the store does not know, a mode outside LOCAL / AWS
StoredProfile ==
    [id |-> <<"a">>, name |-> <<"n">>, mode |-> MODE_AWS, ssid |-> <<"s">>,
     password |-> <<"k">>, mqtt |-> <<"h">>, updated_at |-> 1]
ForeignProfile == [id |-> <<"c">>, mode |-> <<"x">>, note |-> <<"n">>]

\* contents of profiles.json when the service starts
FoundFiles ==
    { Missing, Corrupt, NonMapping,
      FileDoc(_default_doc),
      FileDoc([schema |-> SCHEMA_VERSION, current_profile_id |-> <<"a">>,
               profiles |-> <<StoredProfile>>]),
      FileDoc([schema |-> 0, current_profile_id |-> <<>>,
               profiles |-> <<StoredProfile>>, note |-> <<"n">>]),
      FileDoc([profiles |-> <<StoredProfile>>]),
      FileDoc([schema |-> SCHEMA_VERSION, current_profile_id |-> <<"c">>,
               profiles |-> <<ForeignProfile, StoredProfile>>]),
      FileDocNonList([schema |-> SCHEMA_VERSION,
                      current_profile_id |-> <<>>, profiles |-> <<>>]) }

\* one profile request served on the file found
NextStoreFile ==
    \/ ProfileRequest(1)
    \/ AcquireLock(1)
    \/ LoadStep(1)
    \/ MutateStep(1)
    \/ SaveStep(1)
    \/ RejectStep(1)
    \/ TickStore

DocKeys == {"schema", "current_profile_id", "profiles"}

\* a mapping with schema, current_profile_id and profiles
ValidDocument(d) == DocKeys \subseteq DOMAIN d

Unusable == {"missing", "corrupt", "nonmapping"}

\* C17: load_profiles returns a document with schema, current_profile_id and
\* profiles, and when the file was missing, unreadable or corrupt, or its
\* root was not a mapping, it returns the default document and the file holds
\* the default document when it returns.
C17_LoadPersistsDefault ==
    [][\A h \in Handlers :
          LoadStep(h) =>
              /\ ValidDocument(pdoc'[h])
              /\ pfile.kind \in Unusable =>
                    /\ pdoc'[h] = _default_doc
                    /\ pfile' = FileDoc(_default_doc)]_vars

ProfileFields ==
    {"id", "name", "mode", "ssid", "password", "mqtt", "updated_at"}

CanonicalProfile(p) ==
    /\ DOMAIN p = ProfileFields
    /\ p.mode \in {MODE_LOCAL, MODE_AWS}

AllCanonical(profiles) ==
    \A i \in 1..Len(profiles) : CanonicalProfile(profiles[i])

\* C18: every profile of a document load_profiles has returned, and every
\* profile of the file once save_profiles has written it, has exactly the
\* fields id, name, mode, ssid, password, mqtt, updated_at and a mode of
\* LOCAL or AWS, whatever profiles.json held at start.
C18_CanonicalOnReadAndWrite ==
    \A h \in Handlers :
        /\ ppc[h] = "loaded" => AllCanonical(pdoc[h].profiles)
        /\ (ppc[h] = "done" /\ presp[h].ok /\ pfile.kind = "doc") =>
               AllCanonical(FillDefaults(pfile.doc).profiles)

\* a document with the three fields only and the schema of this version
CanonicalDocument(d) == DOMAIN d = DocKeys /\ d.schema = SCHEMA_VERSION

\* C19: the file save_profiles writes has exactly the fields schema,
\* current_profile_id and profiles, with schema = SCHEMA_VERSION whatever the
\* document carries; loading that file leaves it as it is and returns its
\* content, saving what was loaded writes the same file again, and for a
\* canonical document the document loaded back is the document saved.
C19_SaveRoundTrip ==
    \A h \in Handlers :
        /\ ppc[h] = "save" =>
              LET d == pdoc[h]
                  f == save_profiles(d)
                  l == load_profiles(f)
              IN  /\ f.kind = "doc"
                  /\ DOMAIN f.doc = DocKeys
                  /\ f.doc.schema = SCHEMA_VERSION
                  /\ l.file = f
                  /\ l.doc = f.doc
                  /\ save_profiles(l.doc) = f
                  /\ CanonicalDocument(d) => l.doc = d
        /\ (ppc[h] = "done" /\ presp[h].ok) =>
              /\ pfile.kind = "doc"
              /\ CanonicalDocument(pfile.doc)

\* C19 witness: a document loaded from a file with another schema value and
\* an unknown key is about to be saved.
C19_Witness ==
    \E h \in Handlers :
        /\ ppc[h] = "save"
        /\ pdoc[h].schema # SCHEMA_VERSION
        /\ "note" \in DOMAIN pdoc[h]
        /\ Len(pdoc[h].profiles) >= 1

\* the id an upsert request is about: the override id if one is given,
\* otherwise the id of the profile, trimmed
EffectiveId(req) ==
    Strip(IF req.id # <<>> THEN req.id ELSE req.profile.id)

\* C20: an upsert whose effective id is empty is answered {ok: False}; the
\* profile list and the selection of the loaded document stay as they were,
\* and from the load to the return of the handler profiles.json is not
\* written.
C20_EmptyIdUpsertRejected ==
    [][\A h \in Handlers :
          /\ (MutateStep(h) /\ preq[h].kind = "upsert"
                /\ EffectiveId(preq[h]) = <<>>) =>
                 /\ ppc'[h] = "fail"
                 /\ presp'[h] = [kind |-> "upsert", ok |-> FALSE]
                 /\ pdoc'[h].profiles = pdoc[h].profiles
                 /\ pdoc'[h].current_profile_id = pdoc[h].current_profile_id
                 /\ pfile' = pfile
          /\ (RejectStep(h) /\ presp[h].kind = "upsert") =>
                 /\ ppc'[h] = "done"
                 /\ pfile' = pfile]_vars

\* C20 witness: an upsert has been rejected while the store held a profile.
C20_Witness ==
    \E h \in Handlers :
        /\ ppc[h] = "done"
        /\ presp[h] = [kind |-> "upsert", ok |-> FALSE]
        /\ Len(Persisted.profiles) >= 1
        /\ Persisted.current_profile_id # <<>>

\* positions of the profiles with id pid
PositionsOf(profiles, pid) == {i \in 1..Len(profiles) : profiles[i].id = pid}

\* C21: when an upsert with effective id X succeeds, the list holds exactly
\* one profile with id X, at the position of the profile it replaced or at
\* the end when X was new; every other profile is where it was and as it
\* was; the selection is X.
C21_UpsertReplacesOrAppends ==
    [][\A h \in Handlers :
          (MutateStep(h) /\ preq[h].kind = "upsert" /\ presp'[h].ok) =>
              LET X == EffectiveId(preq[h])
                  before == pdoc[h].profiles
                  after == pdoc'[h].profiles
              IN  /\ Cardinality(PositionsOf(after, X)) = 1
                  /\ pdoc'[h].current_profile_id = X
                  /\ IF PositionsOf(before, X) # {}
                     THEN /\ Len(after) = Len(before)
                          /\ PositionsOf(after, X) = PositionsOf(before, X)
                          /\ \A i \in 1..Len(before) :
                                 before[i].id # X => after[i] = before[i]
                     ELSE /\ Len(after) = Len(before) + 1
                          /\ SubSeq(after, 1, Len(before)) = before
                          /\ after[Len(after)].id = X]_vars

\* C21 witness: an upsert has replaced the first of two profiles, and the
\* selection has moved to it.
C21_Witness ==
    \E h \in Handlers :
        /\ ppc[h] = "save" /\ preq[h].kind = "upsert"
        /\ Len(pdoc[h].profiles) = 2
        /\ pdoc[h].profiles[1].id = EffectiveId(preq[h])
        /\ Persisted.current_profile_id # EffectiveId(preq[h])
        /\ Len(Persisted.profiles) = 2

\* C22: set_current with an empty id succeeds and clears the selection; with
\* a non-empty id of no profile it fails, the document stays as loaded and
\* the handler returns without writing profiles.json; with the id of a
\* profile it succeeds and the selection becomes that id. The profile list
\* is the same in all three cases.
C22_SetCurrent ==
    [][\A h \in Handlers :
          /\ (MutateStep(h) /\ preq[h].kind = "select") =>
                LET pid == Strip(preq[h].id)
                IN  /\ pdoc'[h].profiles = pdoc[h].profiles
                    /\ pfile' = pfile
                    /\ IF pid = <<>>
                       THEN /\ presp'[h].ok /\ ppc'[h] = "save"
                            /\ pdoc'[h].current_profile_id = <<>>
                       ELSE IF HasId(pdoc[h], pid)
                       THEN /\ presp'[h].ok /\ ppc'[h] = "save"
                            /\ pdoc'[h].current_profile_id = pid
                       ELSE /\ ~ presp'[h].ok /\ ppc'[h] = "fail"
                            /\ pdoc'[h] = pdoc[h]
          /\ (RejectStep(h) /\ presp[h].kind = "select") =>
                /\ ppc'[h] = "done"
                /\ pfile' = pfile
          /\ (SaveStep(h) /\ presp[h].kind = "select") =>
                /\ pfile'.doc.current_profile_id = pdoc[h].current_profile_id
                /\ pfile'.doc.profiles = pdoc[h].profiles]_vars

\* C22 witness: a select of an id that no profile has was refused while the
\* store held a profile and a selection.
C22_Witness ==
    \E h \in Handlers :
        /\ ppc[h] = "done"
        /\ presp[h] = [kind |-> "select", ok |-> FALSE]
        /\ Len(Persisted.profiles) >= 1
        /\ Persisted.current_profile_id # <<>>

\* C23: on a document with no profile, an upsert with a non-empty effective
\* id X followed by a delete of X gives the document back with an empty
\* list and an empty selection, and the delete reports a removal; the same
\* holds of the two requests served one after the other on the file.
C23_UpsertThenDelete ==
    \A h \in Handlers :
        /\ (ppc[h] = "loaded" /\ preq[h].kind = "upsert"
              /\ pdoc[h].profiles = <<>> /\ EffectiveId(preq[h]) # <<>>) =>
               LET u == upsert_profile(pdoc[h], preq[h].profile, preq[h].id)
                   d == delete_profile(u.doc, u.id)
                   del == [kind |-> "delete", profile |-> NoProfile, id |-> u.id]
                   f == RunAlone(del, RunAlone(preq[h], pfile))
               IN  /\ u.ok /\ u.id = EffectiveId(preq[h])
                   /\ Len(u.doc.profiles) = 1
                   /\ d.ok
                   /\ d.doc = [pdoc[h] EXCEPT !.current_profile_id = <<>>]
                   /\ load_profiles(f).doc.profiles = <<>>
                   /\ load_profiles(f).doc.current_profile_id = <<>>
        /\ (ppc[h] = "done" /\ presp[h] = [kind |-> "delete", ok |-> TRUE]
              /\ Persisted.profiles = <<>>) =>
               Persisted.current_profile_id = <<>>

\* C23 witness: a delete has removed the only profile, which an upsert had
\* stored, and the store is empty again.
C23_Witness ==
    \E h, g \in Handlers :
        /\ ppc[h] = "done" /\ presp[h] = [kind |-> "delete", ok |-> TRUE]
        /\ ppc[g] = "done" /\ presp[g] = [kind |-> "upsert", ok |-> TRUE]
        /\ pissued = 2
        /\ Persisted.profiles = <<>>
        /\ Persisted.current_profile_id = <<>>

----------------------------------------------------------------------------
(* profiles/zp2_profile.py: the codec functions, each called with every     *)
(* argument of a bounded set                                               *)

\* longest bytes value read from the mode characteristic
MaxRawLen == 2
\* longest SSID and password
MaxTextLen == 2

SeqsUpTo(S, n) == UNION {[1..k -> S] : k \in 0..n}

\* mode strings of a profile
ModeInputs ==
    { <<>>, <<" ">>, MODE_AWS, <<"a", "w", "s">>, <<" ", "A", "w", "s", " ">>,
      MODE_LOCAL, <<"l", "o", "c", "a", "l">>, <<"x">>, <<"0">>, <<"1">> }

\* bytes of a characteristic: "0", "1", NUL, blank, "x", and 0xFF (not UTF-8)
RawInputs == SeqsUpTo({48, 49, 0, 32, 120, 255}, MaxRawLen)

BROKER == <<"1", "0", ".", "1", "0", ".", "1", "0", ".", "1", "0">>

\* mqtt fields of a profile
MqttInputs ==
    { <<>>, <<" ">>, <<"h">>, <<" ", "h", " ">>, <<"h", ":", "9">>,
      <<"h", ":">>, <<"h", "/", "t">>, <<" ", "h", "/", "t", " ">>,
      <<"h", ":", "9", "/", "t">>, <<"/">>, BROKER,
      BROKER \o <<":", "8", "8", "8", "3">> }

\* SSIDs and passwords; "<NUL>" is the character U+0000
WifiTexts == SeqsUpTo({"a", " ", "<NUL>"}, MaxTextLen)

notCodec == <<pvars, now, cvars, iovars, kvars, bvars>>

CallEncodeMode ==
    /\ \E m \in ModeInputs :
          xcall' = [NoCall EXCEPT !.fn = "encode_mode", !.a = m,
                                  !.text = encode_mode(m)]
    /\ UNCHANGED notCodec

CallDecodeMode ==
    /\ \E raw \in RawInputs :
          xcall' = [NoCall EXCEPT !.fn = "decode_mode", !.raw = raw,
                                  !.text = decode_mode(raw)]
    /\ UNCHANGED notCodec

CallEncodeMqtt ==
    /\ \E m \in MqttInputs :
          xcall' = [NoCall EXCEPT !.fn = "encode_mqtt", !.a = m,
                                  !.text = encode_mqtt(m)]
    /\ UNCHANGED notCodec

CallEncodeWifiCombo ==
    /\ \E ssid \in WifiTexts, password \in WifiTexts :
          xcall' = [NoCall EXCEPT !.fn = "encode_wifi_combo", !.a = ssid,
                                  !.b = password,
                                  !.bytes = encode_wifi_combo(ssid, password)]
    /\ UNCHANGED notCodec

NextCodec ==
    \/ CallEncodeMode
    \/ CallDecodeMode
    \/ CallEncodeMqtt
    \/ CallEncodeWifiCombo

AwsSpellings == {MODE_AWS, <<"a", "w", "s">>, <<" ", "A", "w", "s", " ">>}

\* C24: encode_mode gives "0" for AWS in any case and with blanks around it
\* and "1" for everything else; decode_mode gives AWS for a first byte "0"
\* and LOCAL for a first byte "1", and a text for any other bytes; decoding
\* the encoding of AWS or LOCAL gives the mode back, and encoding the decoded
\* encoding of any mode gives the encoding again.
C24_ModeCodecInverse ==
    /\ xcall.fn = "encode_mode" =>
          /\ xcall.text = IF xcall.a \in AwsSpellings THEN <<"0">> ELSE <<"1">>
          /\ xcall.a \in {MODE_AWS, MODE_LOCAL} =>
                decode_mode(_encode_text(xcall.text)) = xcall.a
          /\ encode_mode(decode_mode(_encode_text(xcall.text))) = xcall.text
    /\ xcall.fn = "decode_mode" =>
          /\ (xcall.raw # <<>> /\ xcall.raw[1] = 48) => xcall.text = MODE_AWS
          /\ (xcall.raw # <<>> /\ xcall.raw[1] = 49) => xcall.text = MODE_LOCAL
          /\ Len(xcall.text) <= Len(xcall.raw) + Len(MODE_LOCAL)

\* C24 witness: LOCAL has been encoded as "1".
C24_Witness ==
    /\ xcall.fn = "encode_mode"
    /\ xcall.a = MODE_LOCAL
    /\ xcall.text = <<"1">>

\* ":1883" and "/test/test"
Port1883 == <<":", "1", "8", "8", "3">>
TestTopic == <<"/", "t", "e", "s", "t", "/", "t", "e", "s", "t">>

\* C25: encode_mqtt returns "" for a blank input and the trimmed input when
\* it contains "/"; otherwise the trimmed input, followed by ":1883" when it
\* holds no ":", followed by "/test/test". "10.10.10.10" gives
\* "10.10.10.10:1883/test/test" and "10.10.10.10:8883" gives
\* "10.10.10.10:8883/test/test".
C25_EncodeMqtt ==
    xcall.fn = "encode_mqtt" =>
        LET s == Strip(xcall.a)
        IN  /\ s = <<>> => xcall.text = <<>>
            /\ InSeq(s, "/") => xcall.text = s
            /\ (s # <<>> /\ ~ InSeq(s, "/") /\ ~ InSeq(s, ":")) =>
                  xcall.text = s \o Port1883 \o TestTopic
            /\ (s # <<>> /\ ~ InSeq(s, "/") /\ InSeq(s, ":")) =>
                  xcall.text = s \o TestTopic
            /\ xcall.a = BROKER =>
                  xcall.text = BROKER \o Port1883 \o TestTopic
            /\ xcall.a = BROKER \o <<":", "8", "8", "8", "3">> =>
                  xcall.text = xcall.a \o TestTopic

\* C25 witness: "10.10.10.10" has been encoded as
\* "10.10.10.10:1883/test/test".
C25_Witness ==
    /\ xcall.fn = "encode_mqtt"
    /\ xcall.a = BROKER
    /\ xcall.text = BROKER \o Port1883 \o TestTopic

\* positions of the byte 0x00 in a bytes value
NulPositions(b) == {i \in 1..Len(b) : b[i] = 0}

\* C26: for every SSID and password the payload of encode_wifi_combo holds
\* exactly one 0x00 byte, right after the bytes of the SSID (index
\* len(ssid bytes), counted from 0), the bytes of the SSID before it and the
\* bytes of the password after it.
C26_OneSeparator ==
    xcall.fn = "encode_wifi_combo" =>
        LET n == Len(_encode_text(xcall.a))
        IN  /\ NulPositions(xcall.bytes) = {n + 1}
            /\ SubSeq(xcall.bytes, 1, n) = _encode_text(xcall.a)
            /\ SubSeq(xcall.bytes, n + 2, Len(xcall.bytes)) =
                   _encode_text(xcall.b)

----------------------------------------------------------------------------
(* The scan cache ages and is cleared by an expired read; then a batch     *)
(* arrives                                                                 *)

\* time passes while no batch is being served
AgeCache == bpc = "idle" /\ TickCache

\* GET /api/devices while no batch is being served
ReadDevices == bpc = "idle" /\ ApiDevices

\* a batch request arrives after an expired read has cleared the cache
BatchOnClearedCache == cfile = ClearedCache(cfile) /\ BatchRequest

\* no turn of such a batch gets to its reads or writes, so IoStep is left out
NextStale ==
    \/ AgeCache
    \/ ReadDevices
    \/ BatchOnClearedCache
    \/ LoadUserProfile
    \/ Resolve
    \/ Connect
    \/ Finally

\* the name of the first entry with this address, "" when there is none
StoredName(results, address) ==
    IF \E i \in 1..Len(results) : results[i].address = address
    THEN results[CHOOSE i \in 1..Len(results) :
                    /\ results[i].address = address
                    /\ \A j \in 1..(i - 1) : results[j].address # address].name
    ELSE <<>>

LookupAddresses == Addresses \cup {"A2"}

\* C27: while the cache file holds the latest sweep, however old,
\* find_adv_name_in_cache returns the name stored for the address, or "" for
\* an address the sweep did not find; once an expired read has cleared the
\* cache it returns "" for every address, and every fetch-details,
\* write-profile or send-command batch that passes validation then reports
\* each of its targets as an unsupported device.
C27_LookupIgnoresTtl ==
    /\ cfile = CacheDoc(csweep.ts, csweep.results) =>
          \A a \in LookupAddresses :
              find_adv_name_in_cache(cfile, a) = StoredName(csweep.results, a)
    /\ cfile = CacheDoc(0, <<>>) =>
          \A a \in LookupAddresses : find_adv_name_in_cache(cfile, a) = <<>>
    /\ (bpc = "done" /\ ~ InvalidRequest) =>
          /\ bresp.kind = "results"
          /\ Len(bresp.results) = Len(breq.targets)
          /\ \A t \in 1..Len(bresp.results) :
                /\ bresp.results[t].address = breq.targets[t]
                /\ ~ bresp.results[t].ok
                /\ bresp.results[t].error = "unsupported device"

----------------------------------------------------------------------------
(* Termination of the batch operations *)

\* every await of a handler returns (the transport operations return or
\* raise; asyncio.sleep returns), so a handler that can take a step does
BatchProgress ==
    WF_vars(LoadUserProfile \/ Resolve \/ Connect \/ IoStep \/ Finally)

BatchRunning == bpc \notin {"idle", "done"}

\* at most one connect per turn, and the turns are those of the targets in
\* list order, one each
AttemptedOnce ==
    /\ \A t \in 1..Len(blog) :
          Cardinality({k \in 1..Len(blog[t]) : blog[t][k].e = "connect"}) <= 1
    /\ Len(blog) <= Len(breq.targets)
    /\ Len(bturns) <= Len(breq.targets)
    /\ \A t \in 1..Len(bturns) : bturns[t].address = breq.targets[t]

\* turn t has failed in its connect or in a read or write, and it is not
\* the turn of the last target
FailedTurn(t) ==
    /\ BatchRunning
    /\ Len(bturns) = t /\ t < Len(breq.targets)
    /\ bturns[t].item.error \in
          {"connect failed", "transfer failed", "service or char not found"}

\* C28: when every transport operation returns or fails, a batch that has
\* started ends; no target gets more than one turn and no turn more than one
\* connect attempt; after a turn that failed in its connect, read or write
\* the turn of the next target is run.
C28_BatchTerminates ==
    /\ []AttemptedOnce
    /\ [](BatchRunning => <>(bpc = "done"))
    /\ \A t \in 1..MaxTargets : [](FailedTurn(t) => <>(Len(bturns) > t))

\* C28 witness: a batch of two targets has ended after the first target's
\* transfer was lost and the second target's turn was run.
C28_Witness ==
    /\ bpc = "done"
    /\ Len(bturns) = 2
    /\ bturns[1].item.error = "transfer failed"
    /\ Len(blog[2]) > 0

----------------------------------------------------------------------------
(* Claims on the flags of a scan entry *)

\* the entries of the latest completed sweep, as do_scan returned them
ScanEntries == { csweep.results[i] : i \in 1..Len(csweep.results) }

\* C29: for every entry a scan produces, is_supported implies is_zp2 and
\* model_key = "ZP2", and model_key is non-empty exactly when is_supported
\* is true
C29_SupportedImpliesLegacy ==
    \A x \in ScanEntries :
        /\ x.is_supported => (x.is_zp2 /\ x.model_key = ZP2)
        /\ (x.model_key # <<>>) <=> x.is_supported

\* a sweep with a supported entry, and an entry that is_zp2 through its alias
\* only and is not supported
C29_Witness ==
    /\ csweep.done
    /\ \E x \in ScanEntries : x.is_supported /\ x.is_zp2
    /\ \E x \in ScanEntries :
          /\ x.is_zp2 /\ ~x.is_supported /\ x.model_key = <<>>
          /\ ~Contains(Upper(x.name), ZP2)

----------------------------------------------------------------------------
(* Claims on a write batch that runs beside profile requests *)

\* the batch is inside its loop over the targets
InLoop == bpc \in {"resolve", "connect", "io", "finally"}

\* POST /api/write_profile arrives
WriteRequest == BatchRequest /\ breq'.op = "write"

\* a profile request arrives while the batch is inside its loop
RaceRequest == InLoop /\ ProfileRequest(1)

NextWriteRace ==
    \/ WriteRequest
    \/ LoadUserProfile
    \/ Resolve
    \/ Connect
    \/ IoStep
    \/ Finally
    \/ RaceRequest
    \/ AcquireLock(1)
    \/ LoadStep(1)
    \/ MutateStep(1)
    \/ SaveStep(1)
    \/ RejectStep(1)

\* the fields write_profile takes from user_profile
SnapshotFields(l) == <<l.mode, l.ssid, l.password, l.mqtt_in>>

\* the fields of the profile the request names, as stored in f
StoredFields(f, req) ==
    LET profiles == load_profiles(f).doc.profiles
        idx == IndexOfId(profiles, Strip(req.profile_id))
    IN  <<Upper(Strip(profiles[idx].mode)), Strip(profiles[idx].ssid),
          Strip(profiles[idx].password), Strip(profiles[idx].mqtt)>>

\* the payload for endpoint ep computed from the fields alone
SnapshotPayload(l, ep) ==
    CASE ep = "CH_MODE" ->
            _encode_text(IF l.mode = MODE_AWS THEN <<"0">> ELSE <<"1">>)
      [] ep = "CH_MQTT" -> _encode_text(build_mqtt_text(l.mqtt_in))
      [] OTHER -> _encode_text(l.ssid) \o <<0>> \o _encode_text(l.password)

\* every payload written so far, to any target, derives from the fields held
WritesFromSnapshot ==
    \A t \in 1..Len(blog) : \A k \in 1..Len(blog[t]) :
        blog[t][k].e = "write" =>
            blog[t][k].data = SnapshotPayload(blocals, blog[t][k].ep)

\* the lock, when held, is held by a profile handler in its critical section
HeldByHandler ==
    plock # 0 => ppc[plock] \in {"locked", "loaded", "save", "fail"}

\* the step that reads the profile: it starts and ends with the lock free and
\* takes the fields of the profile as stored at that moment
ReadsUnderLock ==
    (bpc = "lock" /\ bpc' = "resolve") =>
        /\ plock = 0 /\ plock' = 0
        /\ bi' = 1
        /\ SnapshotFields(blocals') = StoredFields(pfile, breq)

\* no step of the loop, and no step of a profile request, changes the fields
KeepsSnapshot ==
    InLoop => SnapshotFields(blocals') = SnapshotFields(blocals)

\* C30: write_profile reads the named profile once, with the profile lock
\* taken and released in that step, before the first target; every payload
\* written to every target derives from the fields read then, whatever
\* profile requests do to the store while the batch runs; and while the batch
\* is in its loop the lock is free or held by a profile handler
C30_SnapshotUnderLock ==
    /\ [](InLoop => (WritesFromSnapshot /\ HeldByHandler))
    /\ [][ReadsUnderLock /\ KeepsSnapshot]_vars

\* both targets were written from the fields read first, and a profile
\* request that arrived while the batch was in its loop has changed or
\* removed the named profile
C30_Witness ==
    /\ bpc = "done"
    /\ breq.op = "write"
    /\ Len(bturns) = 2
    /\ \A t \in 1..2 : bturns[t].item.ok
    /\ ppc[1] = "done"
    /\ presp[1].ok
    /\ \/ IndexOfId(load_profiles(pfile).doc.profiles,
                     Strip(breq.profile_id)) = 0
       \/ StoredFields(pfile, breq) # SnapshotFields(blocals)

----------------------------------------------------------------------------
(* Specifications *)

ProfilesIdle == InitProfiles

InitStore ==
    InitProfiles /\ now = 0 /\ CacheIdle /\ IoIdle /\ CrashIdle /\ BatchIdle
    /\ CodecIdle

\* the profile routes, served concurrently
SpecProfiles == InitStore /\ [][NextProfiles]_vars

InitCache ==
    CacheIdle /\ now = 1 /\ ProfilesIdle /\ IoIdle /\ CrashIdle /\ BatchIdle
    /\ CodecIdle

\* the scan cache routes, each request served in one step
SpecCache == InitCache /\ [][NextCache]_vars

\* api_scan alone, over every sweep of the discoverable devices
SpecScan == InitCache /\ [][NextScan]_vars

\* the scan cache written in place by the event loop and read, and cleared,
\* by api_devices from a worker thread
SpecCacheRace == InitCache /\ [][NextCacheRace]_vars

\* writes of the two files, a crash during a write, and the next read
SpecCrash == InitCache /\ [][NextCrash]_vars

\* the profile store two upsert requests leave: profile a with an MQTT
\* field, profile b with a blank one
BatchStore ==
    RunAlone(Upsert(InProfile(<<"b">>, <<>>, <<" ">>), <<>>),
             RunAlone(Upsert(InProfile(<<"a">>, <<"a", "w", "s">>, <<"h">>), <<>>),
                      Missing))

\* the sweeps whose cache the batches run against: A1 and A3, or A1 alone
BatchSweeps ==
    { sq \in NearbySweeps : \E i \in 1..Len(sq) : sq[i].address = "A1" }

\* the batch routes idle, after two profiles were stored and a scan was made
InitBatch ==
    /\ now = 1
    /\ pfile = BatchStore
    /\ pserial = BatchStore
    /\ plock = 0
    /\ ppc = [h \in Handlers |-> "new"]
    /\ preq = [h \in Handlers |-> NoRequest]
    /\ pdoc = [h \in Handlers |-> _default_doc]
    /\ presp = [h \in Handlers |-> NoResponse]
    /\ pissued = 0
    /\ \E devices \in BatchSweeps :
          /\ cfile = CacheDoc(now, do_scan(devices))
          /\ csweep = [done |-> TRUE, ts |-> now, results |-> do_scan(devices),
                       found |-> [i \in 1..Len(devices) |-> devices[i].address]]
    /\ cscan = 0
    /\ cresp = NoDevicesResp
    /\ clast = "scan"
    /\ cticks = 0
    /\ IoIdle
    /\ CrashIdle
    /\ BatchIdle
    /\ CodecIdle

\* the three batch routes: one batch request, from arrival to response
SpecBatch == InitBatch /\ [][NextBatch]_vars

\* one profile request on whatever profiles.json holds at start
InitStoreFile ==
    /\ now = 0
    /\ pfile \in FoundFiles
    /\ pserial = pfile
    /\ plock = 0
    /\ ppc = [h \in Handlers |-> "new"]
    /\ preq = [h \in Handlers |-> NoRequest]
    /\ pdoc = [h \in Handlers |-> _default_doc]
    /\ presp = [h \in Handlers |-> NoResponse]
    /\ pissued = 0
    /\ CacheIdle
    /\ IoIdle
    /\ CrashIdle
    /\ BatchIdle
    /\ CodecIdle

SpecStoreFile == InitStoreFile /\ [][NextStoreFile]_vars

\* the codec functions of the ZP2 profile, called in any order
InitCodec ==
    /\ InitProfiles
    /\ now = 0
    /\ CacheIdle
    /\ IoIdle
    /\ CrashIdle
    /\ BatchIdle
    /\ CodecIdle

SpecCodec == InitCodec /\ [][NextCodec]_vars

\* the cache of a past scan ages, an expired read clears it, a batch arrives
SpecStale == InitBatch /\ [][NextStale]_vars

\* a write batch, and a profile request that arrives while it runs
SpecWriteRace == InitBatch /\ [][NextWriteRace]_vars

\* one batch request served to its end
SpecBatchLive == InitBatch /\ [][NextBatch]_vars /\ BatchProgress

====
